---------------------------- MODULE Spec2Model ----------------------------
(***************************************************************************)
(* A state-machine model of AIClient (.github/scripts/ai_utils.py): the    *)
(* construction of a client (config lookup and load, provider setup), the  *)
(* prompt renderer, model and parameter selection, cost estimation, and    *)
(* the call_ai dispatcher with its usage accumulator.                      *)
(*                                                                         *)
(* Python values are modelled as follows.                                  *)
(*   - a dict is a function whose domain is a set of strings; d.get(k, v)  *)
(*     is Get(d, k, v);                                                    *)
(*   - None, in a slot that otherwise holds a string, is the string None;  *)
(*   - a value read from a YAML document is tagged with its Python type,   *)
(*     [type |-> "dict", d |-> ...], [type |-> "NoneType"], ...;           *)
(*   - an exception is the string of its class name; an operator that can  *)
(*     raise returns a record with an exc field (None: it returned);       *)
(*   - a format string is a sequence of segments, literal text or a named  *)
(*     replacement field;                                                  *)
(*   - temperatures are in tenths (0.3 is 3); prices are integers per 1000 *)
(*     tokens, and estimated_cost is carried scaled by 1000 so that        *)
(*     (tokens / 1000) * price stays an integer.                           *)
(***************************************************************************)
EXTENDS Integers, Sequences, FiniteSets, TLC

VARIABLES
    config_path_arg,   \* the config_path argument of AIClient(...)
    config_file,       \* the configuration file on disk
    environ,           \* os.environ, the two credential variables
    ctor_raises,       \* the client classes whose constructor raises
    pc,                \* position of the client: new, setup, ready, raised
    init_exc,          \* the exception __init__ raised to its caller, or None
    config,            \* self.config
    clients,           \* self.clients, a dict provider -> handle
    active_provider,   \* self.active_provider
    pending,           \* what is left of the loop over provider_priority
    usage_stats,       \* self.usage_stats
    ret,               \* what the last public call returned or raised
    api_log,           \* requests received by the providers' APIs
    done_calls,        \* per successful API call, its token usage
    ncalls,            \* number of public calls made so far
    script,            \* the collaborator script run that owns the client
    rules              \* the activation of rule_based_analysis in progress

vars == <<config_path_arg, config_file, environ, ctor_raises, pc, init_exc,
          config, clients, active_provider, pending, usage_stats, ret, api_log,
          done_calls, ncalls, script, rules>>

-----------------------------------------------------------------------------
(* Bounds of the model. *)

\* Public calls (call_ai, render_prompt) made on one client.
MaxCalls == 2

\* Token counts a provider reports range over 0..MaxTokens.
MaxTokens == 1

-----------------------------------------------------------------------------
(* Python values. *)

None == "None"

EmptyDict == [k \in {} |-> 0]

Get(d, k, default) == IF k \in DOMAIN d THEN d[k] ELSE default

\* Truth value of a str-or-None slot: None and '' are falsy.
Truthy(s) == s \notin {None, ""}

PyNone == [type |-> "NoneType"]

PyList == [type |-> "list"]

PyDict(d) == [type |-> "dict", d |-> d]

\* x.get exists only on a dict; on None or a list the attribute lookup raises.
HasGet(v) == v.type = "dict"

SeqToSet(s) == {s[i] : i \in DOMAIN s}

-----------------------------------------------------------------------------
(* Configuration: _find_config_file, _load_config. *)

\* The dict _load_config returns when opening or parsing the file raised.
FallbackConfig ==
    [provider_priority |-> <<"openai", "anthropic">>,
     providers |-> [openai |-> [default_model |-> "gpt-4o-mini"],
                    anthropic |-> [default_model |-> "claude-3-5-haiku-20241022"]],
     task_models |-> EmptyDict,
     fallback |-> [on_failure |-> "rule_based"]]

\* A complete configuration document.
CfgFull ==
    [provider_priority |-> <<"openai", "anthropic">>,
     providers |->
        [openai |->
            [default_model |-> "gpt-4o-mini",
             models |-> [standard |-> "gpt-4o-mini", deep |-> "gpt-4o"],
             parameters |-> ("gpt-4o" :> [temperature |-> 5]),
             pricing |-> ("gpt-4o-mini" :> [input |-> 1, output |-> 2])],
         anthropic |->
            [default_model |-> "claude-3-5-haiku-20241022",
             models |-> [standard |-> "claude-3-5-haiku-20241022"],
             parameters |-> ("claude-3-5-haiku-20241022" :> [max_tokens |-> 1000]),
             pricing |-> ("claude-3-5-haiku-20241022" :> [input |-> 3])]],
     task_models |-> [release_analysis |-> [complexity |-> "deep"]],
     debug |-> [estimate_costs |-> TRUE]]

\* The other provider first, an unrecognized provider in the priority list,
\* no providers entry for openai, and a negative price for output tokens.
CfgAnthropicFirst ==
    [provider_priority |-> <<"anthropic", "gemini", "openai">>,
     providers |->
        [anthropic |-> [default_model |-> "claude-3-5-haiku-20241022",
                        pricing |-> ("claude-3-5-haiku-20241022"
                                        :> [input |-> 1, output |-> -1])]],
     task_models |-> EmptyDict]

\* A provider named twice in the priority list.
CfgRepeated ==
    [provider_priority |-> <<"openai", "anthropic", "openai">>,
     providers |-> [openai |-> [default_model |-> "gpt-4o-mini"]],
     task_models |-> EmptyDict]

\* A mapping without provider_priority.
CfgNoPriority ==
    [providers |-> [openai |-> [default_model |-> "gpt-4o-mini"]],
     task_models |-> EmptyDict]

\* What yaml.safe_load yields for the documents considered: a mapping, None
\* for an empty document, a list for a document that is a sequence.
ConfigDocuments ==
    {PyDict(CfgFull), PyDict(CfgAnthropicFirst), PyDict(CfgRepeated),
     PyDict(CfgNoPriority), PyNone, PyList}

\* The file at the configuration path: absent, present but unreadable,
\* present and not YAML, or a YAML document.
ConfigFiles ==
    {[kind |-> k, value |-> PyNone] : k \in {"absent", "unreadable", "invalid_yaml"}}
    \cup {[kind |-> "document", value |-> v] : v \in ConfigDocuments}

\* The configuration files with which calls are explored.
CallConfigFiles ==
    {[kind |-> "document", value |-> PyDict(CfgFull)],
     [kind |-> "document", value |-> PyDict(CfgAnthropicFirst)]}

\* _find_config_file: the path of ai_config.yml beside the script, or
\* FileNotFoundError when it does not exist.
FindConfigFile(file) ==
    IF file.kind = "absent"
    THEN [exc |-> "FileNotFoundError", path |-> None]
    ELSE [exc |-> None, path |-> "ai_config.yml"]

\* open(self.config_path, 'r') followed by yaml.safe_load(f).
OpenAndParse(file) ==
    CASE file.kind = "absent"       -> [exc |-> "FileNotFoundError", value |-> PyNone]
      [] file.kind = "unreadable"   -> [exc |-> "PermissionError", value |-> PyNone]
      [] file.kind = "invalid_yaml" -> [exc |-> "YAMLError", value |-> PyNone]
      [] OTHER                      -> [exc |-> None, value |-> file.value]

\* A loader that forgets the fallback and leaves the config unset on error.
LoadConfigNoFallback(file) ==
    LET r == OpenAndParse(file) IN
    IF r.exc = None THEN r.value ELSE PyNone

\* _load_config: the parsed document, or the fallback dict on any exception.
LoadConfig(file) ==
    LET r == OpenAndParse(file) IN
    IF r.exc = None THEN r.value ELSE PyDict(FallbackConfig)

-----------------------------------------------------------------------------
(* Provider registry: _setup_clients. *)

\* The recognized credential variables hold a key, the empty string, or are
\* unset (os.environ.get then returns None).
EnvValues == {None, "", "sk-key"}

Environments == [OPENAI_API_KEY : EnvValues, ANTHROPIC_API_KEY : EnvValues]

\* The environments in which calls are explored.
CallEnvironments ==
    {[OPENAI_API_KEY |-> None, ANTHROPIC_API_KEY |-> None],
     [OPENAI_API_KEY |-> None, ANTHROPIC_API_KEY |-> "sk-key"],
     [OPENAI_API_KEY |-> "sk-key", ANTHROPIC_API_KEY |-> "sk-key"]}

\* The handle OpenAI(api_key=...) or Anthropic(api_key=...) constructs.
Handle(cls, api_key) == [cls |-> cls, api_key |-> api_key]

\* A branch that constructs the handle whatever the credential is.
SetupBranchIgnoresKey(provider, cls, api_key, cl, act, raising) ==
    IF cls \in raising
    THEN [clients |-> cl, active_provider |-> act, outcome |-> "ctor_raised"]
    ELSE [clients |-> (provider :> Handle(cls, api_key)) @@ cl,
          active_provider |-> IF ~Truthy(act) THEN provider ELSE act,
          outcome |-> "constructed"]

\* A branch that makes the provider active before it constructs the handle.
SetupBranchActivatesFirst(provider, cls, api_key, cl, act, raising) ==
    IF ~Truthy(api_key)
    THEN [clients |-> cl, active_provider |-> act, outcome |-> "no_key"]
    ELSE IF cls \in raising
    THEN [clients |-> cl,
          active_provider |-> IF ~Truthy(act) THEN provider ELSE act,
          outcome |-> "ctor_raised"]
    ELSE [clients |-> (provider :> Handle(cls, api_key)) @@ cl,
          active_provider |-> IF ~Truthy(act) THEN provider ELSE act,
          outcome |-> "constructed"]

\* One recognized provider's branch of the loop body: read the credential,
\* and if it is truthy try to construct the handle; the constructor of a
\* class in raising raises (caught and logged), any other returns.
SetupBranch(provider, cls, api_key, cl, act, raising) ==
    IF ~Truthy(api_key)
    THEN [clients |-> cl, active_provider |-> act, outcome |-> "no_key"]
    ELSE IF cls \in raising
    THEN [clients |-> cl, active_provider |-> act, outcome |-> "ctor_raised"]
    ELSE [clients |-> (provider :> Handle(cls, api_key)) @@ cl,
          active_provider |-> IF ~Truthy(act) THEN provider ELSE act,
          outcome |-> "constructed"]

\* A loop body that lets the latest constructed provider take over.
SetupIterationLastWins(provider, env, cl, act, raising) ==
    LET r == IF provider = "openai"
             THEN SetupBranch("openai", "OpenAI", env.OPENAI_API_KEY, cl, act, raising)
             ELSE IF provider = "anthropic"
             THEN SetupBranch("anthropic", "Anthropic", env.ANTHROPIC_API_KEY,
                              cl, act, raising)
             ELSE [clients |-> cl, active_provider |-> act, outcome |-> "unrecognized"]
    IN  IF r.outcome = "constructed"
        THEN [r EXCEPT !.active_provider = provider]
        ELSE r

\* One iteration of `for provider in provider_priority`.
SetupIteration(provider, env, cl, act, raising) ==
    IF provider = "openai"
    THEN SetupBranch("openai", "OpenAI", env.OPENAI_API_KEY, cl, act, raising)
    ELSE IF provider = "anthropic"
    THEN SetupBranch("anthropic", "Anthropic", env.ANTHROPIC_API_KEY, cl, act, raising)
    ELSE [clients |-> cl, active_provider |-> act, outcome |-> "unrecognized"]

\* A loop that stops at the first constructor that raises.
RestAfterAbortOnFailure(rest, outcome) ==
    IF outcome = "ctor_raised" THEN <<>> ELSE rest

\* What the loop goes on to after an iteration: the rest of the list, whatever
\* the iteration's outcome (a constructor's exception is caught inside it).
RestAfter(rest, outcome) == rest

\* self.usage_stats as __init__ sets it.
InitialUsage == [requests |-> 0, tokens_used |-> 0, estimated_cost |-> 0]

-----------------------------------------------------------------------------
(* Prompt templates: load_prompt_template, render_prompt. *)

Lit(t) == [kind |-> "lit", text |-> t]

Field(name) == [kind |-> "field", text |-> name]

\* The template files of the prompts directory, by task name.  A task name
\* outside the domain has no file.
PromptsDir ==
    [release_analysis |->
        [system_prompt |-> <<Lit("You release "), Field("repo_name")>>,
         user_prompt |-> <<Lit("Commits: "), Field("commit_text")>>,
         parameters |-> [max_tokens |-> 800]],
     code_review |->
        [user_prompt |-> <<Lit("Review: "), Field("diff")>>]]

\* Task names callers pass; the last one has no template file.
TaskNames == {"release_analysis", "code_review", "no_such_task"}

\* Variable mappings callers pass: the first lacks diff, the second lacks
\* repo_name.
VariableMappings ==
    {[repo_name |-> "debian_template_build", commit_text |-> "fix: typo"],
     [commit_text |-> "fix: typo", diff |-> "+ apt: update_cache"]}

\* A loader that gives an empty template for a task without a file.
LoadPromptTemplateEmptyDefault(template_name) ==
    IF template_name \notin DOMAIN PromptsDir
    THEN [exc |-> None, template |-> EmptyDict]
    ELSE [exc |-> None, template |-> PromptsDir[template_name]]

\* load_prompt_template: FileNotFoundError when the file does not exist,
\* else the parsed template.
LoadPromptTemplate(template_name) ==
    IF template_name \notin DOMAIN PromptsDir
    THEN [exc |-> "FileNotFoundError", template |-> EmptyDict]
    ELSE [exc |-> None, template |-> PromptsDir[template_name]]

\* A substitution that leaves an unknown field in place (string.Template's
\* safe_substitute) instead of raising.
FormatLenient(s, variables) ==
    [exc |-> None,
     value |-> [i \in DOMAIN s |->
                  IF s[i].kind = "field" /\ s[i].text \in DOMAIN variables
                  THEN Lit(variables[s[i].text])
                  ELSE s[i]]]

\* str.format(**variables): KeyError when a named replacement field is not a
\* keyword, else every field replaced by its value.
Format(s, variables) ==
    IF \E i \in DOMAIN s : s[i].kind = "field" /\ s[i].text \notin DOMAIN variables
    THEN [exc |-> "KeyError", value |-> <<>>]
    ELSE [exc |-> None,
          value |-> [i \in DOMAIN s |->
                       IF s[i].kind = "field"
                       THEN Lit(variables[s[i].text])
                       ELSE s[i]]]

\* A loader that answers a missing file with an empty template.
RenderPromptMissingIsEmpty(template_name, variables) ==
    LET t == IF template_name \in DOMAIN PromptsDir
             THEN PromptsDir[template_name] ELSE EmptyDict
        sys == Format(Get(t, "system_prompt", <<>>), variables)
        usr == Format(Get(t, "user_prompt", <<>>), variables)
    IN  IF sys.exc # None
        THEN [exc |-> sys.exc, system |-> <<>>, user |-> <<>>, template |-> EmptyDict]
        ELSE IF usr.exc # None
        THEN [exc |-> usr.exc, system |-> <<>>, user |-> <<>>, template |-> EmptyDict]
        ELSE [exc |-> None, system |-> sys.value, user |-> usr.value, template |-> t]

\* render_prompt: load the template, format the system prompt, then the user
\* prompt; the first exception raised propagates.
RenderPrompt(template_name, variables) ==
    LET t == LoadPromptTemplate(template_name)
        sys == Format(Get(t.template, "system_prompt", <<>>), variables)
        usr == Format(Get(t.template, "user_prompt", <<>>), variables)
    IN  IF t.exc # None
        THEN [exc |-> t.exc, system |-> <<>>, user |-> <<>>, template |-> EmptyDict]
        ELSE IF sys.exc # None
        THEN [exc |-> sys.exc, system |-> <<>>, user |-> <<>>, template |-> EmptyDict]
        ELSE IF usr.exc # None
        THEN [exc |-> usr.exc, system |-> <<>>, user |-> <<>>, template |-> EmptyDict]
        ELSE [exc |-> None, system |-> sys.value, user |-> usr.value,
              template |-> t.template]

-----------------------------------------------------------------------------
(* Model selection, parameters, cost: get_model_for_task,                  *)
(* get_model_parameters, estimate_cost.  cfg is the dict self.config.      *)

\* A selection that looks only at the provider's default model.
GetModelForTaskDefaultOnly(cfg, act, task_name, provider_arg) ==
    LET provider == IF Truthy(provider_arg) THEN provider_arg ELSE act IN
    IF ~Truthy(provider) \/ provider \notin DOMAIN Get(cfg, "providers", EmptyDict)
    THEN None
    ELSE Get(cfg.providers[provider], "default_model", None)

\* A selection that falls back to a built-in model name for a provider the
\* configuration does not list.
GetModelForTaskBuiltinDefault(cfg, act, task_name, provider_arg) ==
    LET provider == IF Truthy(provider_arg) THEN provider_arg ELSE act IN
    IF ~Truthy(provider)
    THEN None
    ELSE LET task_config == Get(Get(cfg, "task_models", EmptyDict), task_name, EmptyDict)
             complexity == Get(task_config, "complexity", "standard")
             provider_config == Get(Get(cfg, "providers", EmptyDict), provider,
                                    EmptyDict)
             models == Get(provider_config, "models", EmptyDict)
         IN  Get(models, complexity,
                 Get(provider_config, "default_model", "gpt-4o-mini"))

\* A selection that resolves the model of the active provider whatever
\* provider it is asked about.
GetModelForTaskActiveOnly(cfg, act, task_name, provider_arg) ==
    IF ~Truthy(act) \/ act \notin DOMAIN Get(cfg, "providers", EmptyDict)
    THEN None
    ELSE LET task_config == Get(Get(cfg, "task_models", EmptyDict), task_name, EmptyDict)
             complexity == Get(task_config, "complexity", "standard")
             provider_config == cfg.providers[act]
             models == Get(provider_config, "models", EmptyDict)
         IN  Get(models, complexity, Get(provider_config, "default_model", None))

\* A selection that, for a provider the configuration does not list, takes
\* the model of the active provider instead.
GetModelForTaskFallsBackToActive(cfg, act, task_name, provider_arg) ==
    LET asked == IF Truthy(provider_arg) THEN provider_arg ELSE act
        provider == IF asked \in DOMAIN Get(cfg, "providers", EmptyDict)
                    THEN asked ELSE act
    IN  IF ~Truthy(provider) \/ provider \notin DOMAIN Get(cfg, "providers", EmptyDict)
        THEN None
        ELSE LET task_config == Get(Get(cfg, "task_models", EmptyDict), task_name, EmptyDict)
                 complexity == Get(task_config, "complexity", "standard")
                 provider_config == cfg.providers[provider]
                 models == Get(provider_config, "models", EmptyDict)
             IN  Get(models, complexity, Get(provider_config, "default_model", None))

\* get_model_for_task.
GetModelForTask(cfg, act, task_name, provider_arg) ==
    LET provider == IF Truthy(provider_arg) THEN provider_arg ELSE act IN
    IF ~Truthy(provider) \/ provider \notin DOMAIN Get(cfg, "providers", EmptyDict)
    THEN None
    ELSE LET task_config == Get(Get(cfg, "task_models", EmptyDict), task_name, EmptyDict)
             complexity == Get(task_config, "complexity", "standard")
             provider_config == cfg.providers[provider]
             models == Get(provider_config, "models", EmptyDict)
         IN  Get(models, complexity, Get(provider_config, "default_model", None))

\* The defaults of get_model_parameters (temperature in tenths).
DefaultParameters == [max_tokens |-> 1500, temperature |-> 3, timeout |-> 30]

\* {**parameters, **defaults}: the defaults over the configured parameters.
GetModelParametersDefaultsWin(cfg, model, provider) ==
    LET provider_config == Get(Get(cfg, "providers", EmptyDict), provider, EmptyDict)
        parameters == Get(Get(provider_config, "parameters", EmptyDict), model, EmptyDict)
    IN  DefaultParameters @@ parameters

\* {**defaults, **parameters}: a new dict, parameters over defaults.
GetModelParameters(cfg, model, provider) ==
    LET provider_config == Get(Get(cfg, "providers", EmptyDict), provider, EmptyDict)
        parameters == Get(Get(provider_config, "parameters", EmptyDict), model, EmptyDict)
    IN  parameters @@ DefaultParameters

\* self.config['providers'][provider]['pricing'][model]: each subscript
\* raises KeyError when its key is missing.
PricingLookup(cfg, provider, model) ==
    LET providers == Get(cfg, "providers", EmptyDict)
        provider_config == Get(providers, provider, EmptyDict)
        pricing_all == Get(provider_config, "pricing", EmptyDict)
    IN  IF /\ "providers" \in DOMAIN cfg
           /\ provider \in DOMAIN providers
           /\ "pricing" \in DOMAIN provider_config
           /\ model \in DOMAIN pricing_all
        THEN [exc |-> None, pricing |-> pricing_all[model]]
        ELSE [exc |-> "KeyError", pricing |-> EmptyDict]

\* The try block of estimate_cost, scaled by 1000: tokens times the price
\* per thousand, input plus output.
EstimateCostBody(cfg, provider, model, input_tokens, output_tokens) ==
    LET found == PricingLookup(cfg, provider, model) IN
    IF found.exc # None
    THEN [exc |-> found.exc, value |-> 0]
    ELSE IF "input" \notin DOMAIN found.pricing
            \/ "output" \notin DOMAIN found.pricing
    THEN [exc |-> "KeyError", value |-> 0]
    ELSE [exc |-> None,
          value |-> input_tokens * found.pricing.input
                    + output_tokens * found.pricing.output]

\* An estimate_cost without its except clause.
EstimateCostCallUncaught(cfg, provider, model, input_tokens, output_tokens) ==
    EstimateCostBody(cfg, provider, model, input_tokens, output_tokens)

\* estimate_cost as a call: `except (KeyError, TypeError): return 0.0`.
EstimateCostCall(cfg, provider, model, input_tokens, output_tokens) ==
    LET body == EstimateCostBody(cfg, provider, model, input_tokens,
                                 output_tokens)
    IN  IF body.exc \in {"KeyError", "TypeError"}
        THEN [exc |-> None, value |-> 0]
        ELSE body

\* An estimate that takes the output cost off the input cost.
EstimateCostRefund(cfg, provider, model, input_tokens, output_tokens) ==
    LET found == PricingLookup(cfg, provider, model) IN
    IF found.exc = None /\ {"input", "output"} \subseteq DOMAIN found.pricing
    THEN input_tokens * found.pricing.input
         - output_tokens * found.pricing.output
    ELSE 0

\* The value estimate_cost returns to call_ai.
EstimateCost(cfg, provider, model, input_tokens, output_tokens) ==
    EstimateCostCall(cfg, provider, model, input_tokens, output_tokens).value

-----------------------------------------------------------------------------
(* Dispatcher: _make_api_call, _fallback_response, call_ai.                *)

Tokens == 0..MaxTokens

\* What client.chat.completions.create does: raise (network, auth, rate
\* limit), return a response without choices, or return a completion whose
\* usage.total_tokens is the sum of the other two counts, as the API reports.
OpenAIReplies ==
    {[kind |-> "raise"], [kind |-> "malformed"]}
    \cup {[kind |-> "ok", content |-> "generated text", prompt_tokens |-> p,
           completion_tokens |-> c, total_tokens |-> p + c] : p, c \in Tokens}

\* What client.messages.create does: raise, return a message without content
\* blocks, or return a message with its input and output token counts.
AnthropicReplies ==
    {[kind |-> "raise"], [kind |-> "malformed"]}
    \cup {[kind |-> "ok", text |-> "generated text", input_tokens |-> p,
           output_tokens |-> c] : p, c \in Tokens}

RepliesOf(provider) ==
    IF provider = "openai" THEN OpenAIReplies
    ELSE IF provider = "anthropic" THEN AnthropicReplies
    ELSE {[kind |-> "raise"]}

NoRequest == [provider |-> None]

\* A fallback that does not say which task it stands in for.
FallbackResponseNoTask(task_name) ==
    [content |-> None, model |-> None, provider |-> "fallback",
     error |-> "AI provider not available"]

\* A fallback that carries an all-zero usage like a provider's answer.
FallbackResponseWithUsage(task_name) ==
    [content |-> None, model |-> None, provider |-> "fallback",
     error |-> "AI provider not available", task |-> task_name,
     usage |-> [prompt_tokens |-> 0, completion_tokens |-> 0,
                total_tokens |-> 0]]

\* _fallback_response.
FallbackResponse(task_name) ==
    [content |-> None, model |-> None, provider |-> "fallback",
     error |-> "AI provider not available", task |-> task_name]

\* _make_api_call: build the provider's request, send it, normalize the
\* response.  reply is what the provider's client does with the request.
MakeApiCall(cl, provider, model, prompt_data, params, reply) ==
    IF provider = "openai"
    THEN LET client == cl["openai"]
             messages ==
                (IF DOMAIN prompt_data.system # {}
                 THEN <<[role |-> "system", content |-> prompt_data.system]>>
                 ELSE <<>>)
                \o <<[role |-> "user", content |-> prompt_data.user]>>
             base == [provider |-> "openai", api_key |-> client.api_key,
                      model |-> model, messages |-> messages,
                      max_tokens |-> Get(params, "max_tokens", 1500),
                      temperature |-> Get(params, "temperature", 3)]
             request == IF "response_format" \in DOMAIN params
                        THEN [response_format |-> params.response_format] @@ base
                        ELSE base
         IN  IF reply.kind = "raise"
             THEN [exc |-> "APIError", request |-> request, result |-> EmptyDict]
             ELSE IF reply.kind = "malformed"
             THEN [exc |-> "IndexError", request |-> request, result |-> EmptyDict]
             ELSE [exc |-> None, request |-> request,
                   result |-> [content |-> reply.content,
                               model |-> model,
                               provider |-> provider,
                               usage |-> [prompt_tokens |-> reply.prompt_tokens,
                                          completion_tokens |-> reply.completion_tokens,
                                          total_tokens |-> reply.total_tokens]]]
    ELSE IF provider = "anthropic"
    THEN LET client == cl["anthropic"]
             messages == <<[role |-> "user", content |-> prompt_data.user]>>
             base == [provider |-> "anthropic", api_key |-> client.api_key,
                      model |-> model, messages |-> messages,
                      max_tokens |-> Get(params, "max_tokens", 1500),
                      temperature |-> Get(params, "temperature", 3)]
             request == IF DOMAIN prompt_data.system # {}
                        THEN [system |-> prompt_data.system] @@ base
                        ELSE base
         IN  IF reply.kind = "raise"
             THEN [exc |-> "APIError", request |-> request, result |-> EmptyDict]
             ELSE IF reply.kind = "malformed"
             THEN [exc |-> "IndexError", request |-> request, result |-> EmptyDict]
             ELSE [exc |-> None, request |-> request,
                   result |-> [content |-> reply.text,
                               model |-> model,
                               provider |-> provider,
                               usage |-> [prompt_tokens |-> reply.input_tokens,
                                          completion_tokens |-> reply.output_tokens,
                                          total_tokens |-> reply.input_tokens
                                                           + reply.output_tokens]]]
    ELSE [exc |-> "ValueError", request |-> NoRequest, result |-> EmptyDict]

\* An accumulator that counts the prompt tokens only.
TrackUsagePromptOnly(cfg, stats, provider, model, result) ==
    [requests |-> stats.requests + 1,
     tokens_used |-> stats.tokens_used + result.usage.prompt_tokens,
     estimated_cost |-> stats.estimated_cost]

\* A tracking block that adds the tokens and the cost but does not count
\* the request.
TrackUsageTokensOnly(cfg, stats, provider, model, result) ==
    IF "usage" \in DOMAIN result
    THEN [stats EXCEPT
            !.tokens_used = @ + Get(result.usage, "total_tokens", 0),
            !.estimated_cost = @ + EstimateCost(cfg, provider, model,
                                      Get(result.usage, "prompt_tokens", 0),
                                      Get(result.usage, "completion_tokens", 0))]
    ELSE stats

\* The "Track usage" block of call_ai.
TrackUsage(cfg, stats, provider, model, result) ==
    LET counted == [stats EXCEPT !.requests = @ + 1] IN
    IF "usage" \in DOMAIN result
    THEN [counted EXCEPT
            !.tokens_used = @ + Get(result.usage, "total_tokens", 0),
            !.estimated_cost = @ + EstimateCost(cfg, provider, model,
                                      Get(result.usage, "prompt_tokens", 0),
                                      Get(result.usage, "completion_tokens", 0))]
    ELSE counted

\* A handler that lets template and variable errors through.
CaughtUnlessTemplateError(exc) == exc \notin {"FileNotFoundError", "KeyError"}

\* A handler that lets the provider's errors through.
CaughtUnlessApiError(exc) == exc \notin {"APIError", "IndexError"}

\* `except Exception` around the body of call_ai: every exception the body
\* can raise is an Exception.
Caught(exc) == TRUE

\* A call_ai that counts the request when it is sent, before the reply.
CallAICountsAttempts(cfg, cl, act, stats, task_name, template_variables, provider_arg, reply) ==
    LET provider == IF Truthy(provider_arg) THEN provider_arg ELSE act
        fallback == [exc |-> None, result |-> FallbackResponse(task_name),
                     usage_stats |-> stats, request |-> NoRequest,
                     params |-> EmptyDict]
    IN  IF ~Truthy(provider) \/ provider \notin DOMAIN cl
        THEN fallback
        ELSE LET prompt_data == RenderPrompt(task_name, template_variables) IN
             IF prompt_data.exc # None
             THEN fallback
             ELSE LET model == GetModelForTask(cfg, act, task_name, provider) IN
                  IF ~Truthy(model)
                  THEN fallback
                  ELSE LET params ==
                               Get(prompt_data.template, "parameters", EmptyDict)
                               @@ GetModelParameters(cfg, model, provider)
                           api == MakeApiCall(cl, provider, model, prompt_data,
                                              params, reply)
                           counted == [stats EXCEPT !.requests = @ + 1]
                       IN  IF api.exc # None
                           THEN [fallback EXCEPT !.request = api.request,
                                                 !.usage_stats = counted,
                                                 !.params = params]
                           ELSE [exc |-> None,
                                 result |-> api.result,
                                 usage_stats |-> TrackUsage(cfg, stats, provider,
                                                            model, api.result),
                                 request |-> api.request,
                                 params |-> params]

\* What call_ai does: exc is the exception it raises to its caller (None: it
\* returned result); usage_stats is the accumulator afterwards; request is
\* the request it sent to a provider, NoRequest if it sent none; params is
\* the parameter dict it passed to _make_api_call, empty if it did not get
\* that far.
CallAI(cfg, cl, act, stats, task_name, template_variables, provider_arg, reply) ==
    LET provider == IF Truthy(provider_arg) THEN provider_arg ELSE act
        fallback == [exc |-> None, result |-> FallbackResponse(task_name),
                     usage_stats |-> stats, request |-> NoRequest,
                     params |-> EmptyDict]
        Raised(e, req, ps) ==
            IF Caught(e)
            THEN [fallback EXCEPT !.request = req, !.params = ps]
            ELSE [exc |-> e, result |-> EmptyDict, usage_stats |-> stats,
                  request |-> req, params |-> ps]
    IN  IF ~Truthy(provider) \/ provider \notin DOMAIN cl
        THEN fallback
        ELSE LET prompt_data == RenderPrompt(task_name, template_variables) IN
             IF prompt_data.exc # None
             THEN Raised(prompt_data.exc, NoRequest, EmptyDict)
             ELSE LET model == GetModelForTask(cfg, act, task_name, provider) IN
                  IF ~Truthy(model)
                  THEN fallback
                  ELSE LET params ==
                               Get(prompt_data.template, "parameters", EmptyDict)
                               @@ GetModelParameters(cfg, model, provider)
                           api == MakeApiCall(cl, provider, model, prompt_data,
                                              params, reply)
                       IN  IF api.exc # None
                           THEN Raised(api.exc, api.request, params)
                           ELSE [exc |-> None,
                                 result |-> api.result,
                                 usage_stats |-> TrackUsage(cfg, stats, provider,
                                                            model, api.result),
                                 request |-> api.request,
                                 params |-> params]

\* A call_ai whose params.update writes into the configuration's own
\* parameters entry for the model (get_model_parameters handing out that
\* entry instead of a new dict).
CallAIEffectsMergeInPlace(cfg, cl, act, stats, task_name, template_variables, provider_arg, reply) ==
    LET provider == IF Truthy(provider_arg) THEN provider_arg ELSE act
        r == CallAI(cfg, cl, act, stats, task_name, template_variables,
                    provider_arg, reply)
        sent == r.request.provider # None
        entry == sent
                 /\ "parameters" \in DOMAIN cfg.providers[provider]
                 /\ r.request.model \in DOMAIN cfg.providers[provider].parameters
    IN  [config |-> IF entry
                    THEN [cfg EXCEPT
                            !.providers[provider].parameters[r.request.model]
                                = r.params]
                    ELSE cfg,
         clients |-> cl, active_provider |-> act,
         rendered |-> Truthy(provider) /\ provider \in DOMAIN cl]

\* A call_ai that drops the handle of a provider whose API call failed and
\* makes another registered provider the active one.
CallAIEffectsDropFailedHandle(cfg, cl, act, stats, task_name, template_variables, provider_arg, reply) ==
    LET provider == IF Truthy(provider_arg) THEN provider_arg ELSE act
        r == CallAI(cfg, cl, act, stats, task_name, template_variables,
                    provider_arg, reply)
        failed == r.request.provider # None /\ "error" \in DOMAIN r.result
        kept == [p \in DOMAIN cl \ {provider} |-> cl[p]]
    IN  [config |-> cfg,
         clients |-> IF failed THEN kept ELSE cl,
         active_provider |->
            IF failed /\ act = provider
            THEN (IF DOMAIN kept = {} THEN None ELSE CHOOSE p \in DOMAIN kept : TRUE)
            ELSE act,
         rendered |-> Truthy(provider) /\ provider \in DOMAIN cl]

\* The attributes of the client after call_ai, and whether it called
\* render_prompt.  call_ai assigns to usage_stats only: config, clients and
\* active_provider are read; the dict that params.update changes is the new
\* one get_model_parameters built, not an entry of the configuration.
\* render_prompt is called unless the provider is unset or has no handle.
CallAIEffects(cfg, cl, act, stats, task_name, template_variables, provider_arg, reply) ==
    LET provider == IF Truthy(provider_arg) THEN provider_arg ELSE act IN
    [config |-> cfg, clients |-> cl, active_provider |-> act,
     rendered |-> Truthy(provider) /\ provider \in DOMAIN cl]

\* A summary that lists only the active provider as available.
GetUsageSummaryActiveOnly(stats, act, cl) ==
    [requests_made |-> stats.requests,
     total_tokens |-> stats.tokens_used,
     estimated_cost_usd |-> stats.estimated_cost,
     active_provider |-> act,
     available_providers |-> IF Truthy(act) THEN {act} ELSE {}]

\* get_usage_summary (estimated_cost_usd stays in the accumulator's scale).
GetUsageSummary(stats, act, cl) ==
    [requests_made |-> stats.requests,
     total_tokens |-> stats.tokens_used,
     estimated_cost_usd |-> stats.estimated_cost,
     active_provider |-> act,
     available_providers |-> DOMAIN cl]

-----------------------------------------------------------------------------
(* The state machine. *)

ProviderArgs == {None, "openai", "anthropic"}

NoReturn == [op |-> "none"]

NoUsage == [n |-> 0, prompt_tokens |-> 0, completion_tokens |-> 0]

\* No collaborator script has started.
NoScript == [pc |-> "none"]

\* rule_based_analysis is not running.
NoRules == [pc |-> "none"]

\* The client's own state before AIClient(...) is called.
Fresh ==
    /\ script = NoScript
    /\ rules = NoRules
    /\ pc = "new"
    /\ init_exc = None
    /\ config = PyNone
    /\ clients = EmptyDict
    /\ active_provider = None
    /\ pending = <<>>
    /\ usage_stats = InitialUsage
    /\ ret = NoReturn
    /\ api_log = [openai |-> 0, anthropic |-> 0]
    /\ done_calls = NoUsage
    /\ ncalls = 0

\* Construction followed by calls: the scripts' AIClient(), among a few
\* configuration files and environments.
Init ==
    /\ config_path_arg = None
    /\ config_file \in CallConfigFiles
    /\ environ \in CallEnvironments
    /\ ctor_raises \in {{}, {"OpenAI"}}
    /\ Fresh

\* Construction alone: any argument, configuration file and environment.
InitSetup ==
    /\ config_path_arg \in {None, "ci/ai_config.yml"}
    /\ config_file \in ConfigFiles
    /\ environ \in Environments
    /\ ctor_raises \in SUBSET {"OpenAI", "Anthropic"}
    /\ Fresh

\* __init__ up to the start of the loop of _setup_clients: find the config
\* file unless a path was passed, load it, reset clients and active_provider,
\* and evaluate self.config.get('provider_priority', []).
Construct ==
    /\ pc = "new"
    /\ LET found == IF Truthy(config_path_arg)
                    THEN [exc |-> None, path |-> config_path_arg]
                    ELSE FindConfigFile(config_file)
           loaded == LoadConfig(config_file)
       IN  IF found.exc # None
           THEN /\ pc' = "raised"
                /\ init_exc' = found.exc
                /\ UNCHANGED <<config, pending>>
           ELSE IF ~HasGet(loaded)
           THEN /\ pc' = "raised"
                /\ init_exc' = "AttributeError"
                /\ config' = loaded
                /\ UNCHANGED pending
           ELSE /\ pc' = "setup"
                /\ config' = loaded
                /\ pending' = Get(loaded.d, "provider_priority", <<>>)
                /\ UNCHANGED init_exc
    /\ clients' = EmptyDict
    /\ active_provider' = None
    /\ UNCHANGED <<script, rules, config_path_arg, config_file, environ, ctor_raises,
                   usage_stats,
                   ret, api_log, done_calls, ncalls>>

\* One iteration of the loop of _setup_clients.
SetupStep ==
    /\ pc = "setup"
    /\ pending # <<>>
    /\ LET r == SetupIteration(Head(pending), environ, clients, active_provider,
                               ctor_raises)
       IN  /\ clients' = r.clients
           /\ active_provider' = r.active_provider
           /\ pending' = RestAfter(Tail(pending), r.outcome)
    /\ UNCHANGED <<script, rules, config_path_arg, config_file, environ, ctor_raises, pc,
                   init_exc, config,
                   usage_stats, ret, api_log, done_calls, ncalls>>

\* The loop is over: the rest of __init__ sets usage_stats and returns.
FinishSetup ==
    /\ pc = "setup"
    /\ pending = <<>>
    /\ usage_stats' = InitialUsage
    /\ pc' = "ready"
    /\ UNCHANGED <<script, rules, config_path_arg, config_file, environ, ctor_raises,
                   init_exc, config,
                   clients, active_provider, pending, ret, api_log, done_calls,
                   ncalls>>

\* call_ai(task_name, template_variables, provider) runs on the client, the
\* provider answering a request with reply.  ret.repeat tells whether the
\* call before it was a call_ai with the same three arguments.
DoCallAI(task_name, template_variables, provider_arg, reply) ==
    /\ ncalls' = ncalls + 1
    /\ LET r == CallAI(config.d, clients, active_provider, usage_stats,
                        task_name, template_variables, provider_arg, reply)
            sent == r.request.provider # None
            ok == sent /\ reply.kind = "ok"
            e == CallAIEffects(config.d, clients, active_provider,
                               usage_stats, task_name, template_variables,
                               provider_arg, reply)
        IN  /\ usage_stats' = r.usage_stats
            /\ config' = PyDict(e.config)
            /\ clients' = e.clients
            /\ active_provider' = e.active_provider
            /\ ret' = [op |-> "call_ai", task |-> task_name,
                       rendered |-> e.rendered,
                       variables |-> template_variables,
                       provider_arg |-> provider_arg,
                       exc |-> r.exc, value |-> r.result,
                       request |-> r.request, params |-> r.params,
                       reply |-> IF sent THEN reply.kind ELSE "none",
                       repeat |-> /\ ret.op = "call_ai"
                                  /\ ret.task = task_name
                                  /\ ret.variables = template_variables
                                  /\ ret.provider_arg = provider_arg]
            /\ api_log' = IF sent
                          THEN [api_log EXCEPT ![r.request.provider] = @ + 1]
                          ELSE api_log
            /\ done_calls' =
                 IF ~ok THEN done_calls
                 ELSE IF r.request.provider = "openai"
                 THEN [n |-> done_calls.n + 1,
                       prompt_tokens |-> done_calls.prompt_tokens
                                         + reply.prompt_tokens,
                       completion_tokens |-> done_calls.completion_tokens
                                             + reply.completion_tokens]
                 ELSE [n |-> done_calls.n + 1,
                       prompt_tokens |-> done_calls.prompt_tokens
                                         + reply.input_tokens,
                       completion_tokens |-> done_calls.completion_tokens
                                             + reply.output_tokens]

\* A caller invokes call_ai(task_name, template_variables, provider).
CallAIAction ==
    /\ pc = "ready"
    /\ ncalls < MaxCalls
    /\ \E task_name \in TaskNames, template_variables \in VariableMappings,
          provider_arg \in ProviderArgs :
         \E reply \in RepliesOf(IF Truthy(provider_arg) THEN provider_arg
                                ELSE active_provider) :
            DoCallAI(task_name, template_variables, provider_arg, reply)
    /\ UNCHANGED <<script, rules, config_path_arg, config_file, environ,
                   ctor_raises, pc, init_exc, pending>>

\* A caller invokes render_prompt(template_name, variables) directly.
RenderPromptAction ==
    /\ pc = "ready"
    /\ ncalls < MaxCalls
    /\ \E template_name \in TaskNames, variables \in VariableMappings :
         LET r == RenderPrompt(template_name, variables) IN
         ret' = [op |-> "render_prompt", task |-> template_name,
                 variables |-> variables, exc |-> r.exc,
                 value |-> [system |-> r.system, user |-> r.user,
                            template |-> r.template]]
    /\ ncalls' = ncalls + 1
    /\ UNCHANGED <<script, rules, config_path_arg, config_file, environ, ctor_raises, pc,
                   init_exc, config,
                   clients, active_provider, pending, usage_stats,
                   api_log, done_calls>>

\* A caller invokes get_usage_summary().
GetUsageSummaryAction ==
    /\ pc = "ready"
    /\ ret' = [op |-> "get_usage_summary", exc |-> None,
               value |-> GetUsageSummary(usage_stats, active_provider, clients)]
    /\ UNCHANGED <<script, rules, config_path_arg, config_file, environ, ctor_raises, pc,
                   init_exc, config,
                   clients, active_provider, pending, usage_stats,
                   api_log, done_calls, ncalls>>

Next ==
    \/ Construct
    \/ SetupStep
    \/ FinishSetup
    \/ CallAIAction
    \/ RenderPromptAction
    \/ GetUsageSummaryAction

Spec == Init /\ [][Next]_vars

NextSetup ==
    \/ Construct
    \/ SetupStep
    \/ FinishSetup

SpecSetup == InitSetup /\ [][NextSetup]_vars

\* The read-only methods, called on a constructed client: configurations
\* that are mappings (a file that is not YAML gives the fallback dict).
QueryConfigFiles ==
    {f \in ConfigFiles :
        \/ f.kind = "invalid_yaml"
        \/ f.kind = "document" /\ HasGet(f.value)}

QueryProviders == {"openai", "anthropic", "gemini"}

QueryModels ==
    {"gpt-4o-mini", "gpt-4o", "claude-3-5-haiku-20241022", "no-such-model"}

InitQueries ==
    /\ config_path_arg = None
    /\ config_file \in QueryConfigFiles
    /\ environ \in CallEnvironments
    /\ ctor_raises = {}
    /\ Fresh

\* A caller invokes estimate_cost(provider, model, input_tokens, output_tokens).
EstimateCostAction ==
    /\ pc = "ready"
    /\ \E provider \in QueryProviders, model \in QueryModels,
          input_tokens \in Tokens, output_tokens \in Tokens :
         LET r == EstimateCostCall(config.d, provider, model, input_tokens,
                                   output_tokens)
         IN  ret' = [op |-> "estimate_cost", provider |-> provider,
                     model |-> model, input_tokens |-> input_tokens,
                     output_tokens |-> output_tokens,
                     exc |-> r.exc, value |-> r.value]
    /\ UNCHANGED <<script, rules, config_path_arg, config_file, environ, ctor_raises, pc,
                   init_exc, config, clients, active_provider, pending,
                   usage_stats, api_log, done_calls, ncalls>>

\* A caller invokes get_model_for_task(task_name, provider).
GetModelForTaskAction ==
    /\ pc = "ready"
    /\ \E task_name \in TaskNames, provider_arg \in ProviderArgs \cup {"gemini"} :
         ret' = [op |-> "get_model_for_task", task |-> task_name,
                 provider_arg |-> provider_arg, exc |-> None,
                 value |-> GetModelForTask(config.d, active_provider,
                                           task_name, provider_arg)]
    /\ UNCHANGED <<script, rules, config_path_arg, config_file, environ, ctor_raises, pc,
                   init_exc, config, clients, active_provider, pending,
                   usage_stats, api_log, done_calls, ncalls>>

NextQueries ==
    \/ Construct
    \/ SetupStep
    \/ FinishSetup
    \/ EstimateCostAction
    \/ GetModelForTaskAction

SpecQueries == InitQueries /\ [][NextQueries]_vars

\* The environments the process moves between: no credential, both.
ChangingEnvironments ==
    {[OPENAI_API_KEY |-> None, ANTHROPIC_API_KEY |-> None],
     [OPENAI_API_KEY |-> "sk-key", ANTHROPIC_API_KEY |-> "sk-key"]}

\* Calls on a client while the process environment changes under it.
InitEnviron ==
    /\ config_path_arg = None
    /\ config_file = [kind |-> "document", value |-> PyDict(CfgFull)]
    /\ environ \in ChangingEnvironments
    /\ ctor_raises = {}
    /\ Fresh

\* The credential variables are set or unset in os.environ after the client
\* was constructed; os.environ.get is called in _setup_clients only.
ChangeEnvironAction ==
    /\ pc = "ready"
    /\ \E env \in ChangingEnvironments :
         /\ env # environ
         /\ environ' = env
    /\ UNCHANGED <<script, rules, config_path_arg, config_file, ctor_raises, pc, init_exc,
                   config, clients, active_provider, pending, usage_stats,
                   ret, api_log, done_calls, ncalls>>

NextEnviron ==
    \/ Construct
    \/ SetupStep
    \/ FinishSetup
    \/ CallAIAction
    \/ ChangeEnvironAction

SpecEnviron == InitEnviron /\ [][NextEnviron]_vars

-----------------------------------------------------------------------------
(* Release analyzer: AIReleaseAnalyzer.rule_based_analysis.  A commit       *)
(* message is the sequence of its characters.                               *)

\* The variables of the client and of the process around it.
clientvars == <<config_path_arg, config_file, environ, ctor_raises, pc,
                init_exc, config, clients, active_provider, pending,
                usage_stats, ret, api_log, done_calls, ncalls>>

\* Commits in the list handed to rule_based_analysis.
MaxCommits == 3

\* str.lower on the characters that occur in the messages.
LowerChar(c) ==
    CASE c = "A" -> "a" [] c = "B" -> "b" [] c = "E" -> "e" [] c = "G" -> "g"
      [] c = "I" -> "i" [] c = "K" -> "k" [] c = "N" -> "n" [] c = "R" -> "r"
      [] OTHER -> c

Lower(msg) == [i \in DOMAIN msg |-> LowerChar(msg[i])]

\* `word in msg` on strings: word occurs in msg as a substring.
OccursIn(word, msg) ==
    \E i \in 0..(Len(msg) - Len(word)) : SubSeq(msg, i + 1, i + Len(word)) = word

\* any(word in msg for word in words).
AnyWordIn(words, msg) == \E word \in words : OccursIn(word, msg)

BreakingWords ==
    {<<"b", "r", "e", "a", "k", "i", "n", "g">>,
     <<"r", "e", "m", "o", "v", "e">>,
     <<"d", "r", "o", "p", " ", "s", "u", "p", "p", "o", "r", "t">>,
     <<"!", ":">>}

FeatureWords ==
    {<<"f", "e", "a", "t", ":">>,
     <<"f", "e", "a", "t", "u", "r", "e">>,
     <<"a", "d", "d", " ", "s", "u", "p", "p", "o", "r", "t">>,
     <<"n", "e", "w">>}

FixWords ==
    {<<"f", "i", "x", ":">>,
     <<"b", "u", "g">>,
     <<"r", "e", "p", "a", "i", "r">>,
     <<"c", "o", "r", "r", "e", "c", "t">>}

\* Commit messages: documentation, a fix, a feature, a breaking change in
\* capitals, a word that has "new" inside it, and a message with a breaking
\* and a feature keyword.
CommitMessages ==
    {<<"d", "o", "c", "s">>,
     <<"f", "i", "x", ":", " ", "a">>,
     <<"f", "e", "a", "t", ":", " ", "b">>,
     <<"B", "R", "E", "A", "K", "I", "N", "G">>,
     <<"r", "e", "n", "e", "w">>,
     <<"r", "e", "m", "o", "v", "e", " ", "f", "e", "a", "t", ":">>}

\* The commit lists: every sequence of up to MaxCommits messages.
CommitLists ==
    UNION {[1..n -> CommitMessages] : n \in 0..MaxCommits}

\* changed_files, category -> list of files: task files only (vars present
\* and empty), a vars file, a defaults file.
ChangedFiles ==
    {[tasks |-> <<"tasks/main.yml">>, vars |-> <<>>],
     [tasks |-> <<>>, vars |-> <<"vars/main.yml">>],
     [tasks |-> <<>>, defaults |-> <<"defaults/main.yml">>]}

\* The locals of rule_based_analysis before the loop.
RulesStart(commits, changed_files) ==
    [pc |-> "loop", commits |-> commits, changed_files |-> changed_files,
     i |-> 1, version_bump |-> "patch", breaking_changes |-> <<>>,
     new_features |-> <<>>, bug_fixes |-> <<>>]

\* A loop body in which a feature commit sets minor whatever the bump is.
ProcessCommitLastWins(st) ==
    LET commit == st.commits[st.i]
        msg == Lower(commit)
        next == [st EXCEPT !.i = @ + 1]
    IN  IF AnyWordIn(BreakingWords, msg)
        THEN [next EXCEPT !.version_bump = "major",
                          !.breaking_changes = Append(@, commit)]
        ELSE IF AnyWordIn(FeatureWords, msg)
        THEN [next EXCEPT !.version_bump = "minor",
                          !.new_features = Append(@, commit)]
        ELSE IF AnyWordIn(FixWords, msg)
        THEN [next EXCEPT !.bug_fixes = Append(@, commit)]
        ELSE next

\* One iteration of `for commit in commits`: the if / elif / elif on the
\* lowercased message.
ProcessCommit(st) ==
    LET commit == st.commits[st.i]
        msg == Lower(commit)
        next == [st EXCEPT !.i = @ + 1]
    IN  IF AnyWordIn(BreakingWords, msg)
        THEN [next EXCEPT !.version_bump = "major",
                          !.breaking_changes = Append(@, commit)]
        ELSE IF AnyWordIn(FeatureWords, msg)
        THEN [next EXCEPT !.version_bump = IF @ # "major" THEN "minor" ELSE @,
                          !.new_features = Append(@, commit)]
        ELSE IF AnyWordIn(FixWords, msg)
        THEN [next EXCEPT !.bug_fixes = Append(@, commit)]
        ELSE next

\* s[:5].
FirstFive(s) == SubSeq(s, 1, IF Len(s) < 5 THEN Len(s) ELSE 5)

\* A non-empty list under the key of a dict.
TruthyList(d, k) == k \in DOMAIN d /\ d[k] # <<>>

\* The rest of rule_based_analysis after the loop: the check of the changed
\* files, should_release, the changelog sections and the returned dict.
RulesResult(st) ==
    LET version_bump ==
            IF (TruthyList(st.changed_files, "vars")
                \/ TruthyList(st.changed_files, "defaults"))
               /\ st.version_bump = "patch"
            THEN "minor"
            ELSE st.version_bump
        sections ==
            (IF st.breaking_changes # <<>> THEN <<"### Breaking Changes">> ELSE <<>>)
            \o (IF st.new_features # <<>> THEN <<"### Added">> ELSE <<>>)
            \o (IF st.bug_fixes # <<>> THEN <<"### Fixed">> ELSE <<>>)
    IN  [should_release |-> Len(st.commits) > 0,
         version_bump |-> version_bump,
         reasoning |-> [found |-> Len(st.commits), level |-> version_bump],
         breaking_changes |-> FirstFive(st.breaking_changes),
         new_features |-> FirstFive(st.new_features),
         bug_fixes |-> FirstFive(st.bug_fixes),
         changelog_entry |-> IF sections # <<>> THEN sections
                             ELSE <<"### Changed">>]

\* rule_based_analysis(commits, changed_files) is called.
RuleBasedAnalysisStart ==
    /\ rules.pc = "none"
    /\ \E commits \in CommitLists, changed_files \in ChangedFiles :
         rules' = RulesStart(commits, changed_files)
    /\ UNCHANGED <<clientvars, script>>

\* The loop takes the next commit.
RuleBasedAnalysisStep ==
    /\ rules.pc = "loop"
    /\ rules.i <= Len(rules.commits)
    /\ rules' = ProcessCommit(rules)
    /\ UNCHANGED <<clientvars, script>>

\* The loop is over: the rest of the function runs and it returns.
RuleBasedAnalysisFinish ==
    /\ rules.pc = "loop"
    /\ rules.i > Len(rules.commits)
    /\ rules' = [pc |-> "done", commits |-> rules.commits,
                 changed_files |-> rules.changed_files,
                 result |-> RulesResult(rules)]
    /\ UNCHANGED <<clientvars, script>>

InitRules ==
    /\ config_path_arg = None
    /\ config_file = [kind |-> "absent", value |-> PyNone]
    /\ environ = [OPENAI_API_KEY |-> None, ANTHROPIC_API_KEY |-> None]
    /\ ctor_raises = {}
    /\ Fresh

NextRules ==
    \/ RuleBasedAnalysisStart
    \/ RuleBasedAnalysisStep
    \/ RuleBasedAnalysisFinish

SpecRules == InitRules /\ [][NextRules]_vars

-----------------------------------------------------------------------------
(* Collaborator scripts: AIReleaseAnalyzer, AIPRAnalyzer, AIPRAssistant,     *)
(* AIDocUpdater.  Each constructs an AIClient in its __init__, runs steps    *)
(* that call call_ai and fall back to template-free code, and ends its run   *)
(* with a usage summary.                                                     *)

ScriptNames == {"ai_release_analyzer", "ai_pr_analyzer", "ai_pr_assistant",
                "ai_doc_updater"}

\* The methods that call call_ai.  unavailable is what the method produces
\* when its guard finds no client or no active provider, no_content what it
\* produces for a result with falsy content, on_exception what its
\* `except Exception` produces.  needs is what the method requires of a
\* truthy content before using it: json.loads accepts it, the README holds
\* the section to replace, or nothing.  command is the /ai command whose
\* handler runs the method (the PR assistant handles one command per run);
\* the other scripts run their methods in every run.
CallSites ==
    {[script |-> "ai_release_analyzer", site |-> "analyze_with_ai",
      command |-> "run",
      needs |-> "json", unavailable |-> "rule_based_analysis",
      no_content |-> "rule_based_analysis",
      on_exception |-> "rule_based_analysis", unusable |-> "rule_based_analysis"],
     [script |-> "ai_release_analyzer", site |-> "generate_release_notes",
      command |-> "run",
      needs |-> "nothing", unavailable |-> "fallback template",
      no_content |-> "fallback template",
      on_exception |-> "fallback template", unusable |-> "fallback template"],
     [script |-> "ai_pr_analyzer", site |-> "analyze_pr_with_ai",
      command |-> "run",
      needs |-> "json", unavailable |-> "basic_analysis",
      no_content |-> "basic_analysis",
      on_exception |-> "basic_analysis", unusable |-> "basic_analysis"],
     [script |-> "ai_pr_assistant", site |-> "review_file_with_ai",
      command |-> "review",
      needs |-> "nothing", unavailable |-> None,
      no_content |-> "File reviewed - no specific issues identified.",
      on_exception |-> "Could not complete AI review for this file.",
      unusable |-> "Could not complete AI review for this file."],
     [script |-> "ai_pr_assistant", site |-> "handle_test_command",
      command |-> "test",
      needs |-> "nothing", unavailable |-> "_generate_fallback_tests",
      no_content |-> "_generate_fallback_tests",
      on_exception |-> "_generate_fallback_tests",
      unusable |-> "_generate_fallback_tests"],
     [script |-> "ai_pr_assistant", site |-> "handle_changelog_command",
      command |-> "changelog",
      needs |-> "nothing", unavailable |-> "_generate_fallback_changelog",
      no_content |-> "_generate_fallback_changelog",
      on_exception |-> "_generate_fallback_changelog",
      unusable |-> "_generate_fallback_changelog"],
     [script |-> "ai_pr_assistant", site |-> "handle_docs_command",
      command |-> "docs",
      needs |-> "nothing", unavailable |-> "_generate_fallback_docs",
      no_content |-> "_generate_fallback_docs",
      on_exception |-> "_generate_fallback_docs",
      unusable |-> "_generate_fallback_docs"],
     [script |-> "ai_pr_assistant", site |-> "handle_improve_command",
      command |-> "improve",
      needs |-> "nothing", unavailable |-> "_generate_fallback_improvements",
      no_content |-> "_generate_fallback_improvements",
      on_exception |-> "_generate_fallback_improvements",
      unusable |-> "_generate_fallback_improvements"],
     [script |-> "ai_doc_updater", site |-> "update_readme_with_ai",
      command |-> "run",
      needs |-> "section", unavailable |-> "no update",
      no_content |-> "no update",
      on_exception |-> "no update", unusable |-> "no update"]}

CommandsOf(name) == {s.command : s \in {t \in CallSites : t.script = name}}

SitesOf(name, command) ==
    {s \in CallSites : s.script = name /\ s.command = command}

\* What the scripts produce without AI.
FallbackTexts ==
    UNION {{s.unavailable, s.no_content, s.on_exception, s.unusable} :
           s \in CallSites}

NoOutcome == [site |-> None]

\* An __init__ that lets the exception of AIClient() through.
ScriptInitReraises(client_pc, client_exc) ==
    IF client_pc = "ready"
    THEN [exc |-> None, ai_client |-> "AIClient"]
    ELSE [exc |-> client_exc, ai_client |-> None]

\* __init__ of a script: `try: self.ai_client = AIClient()` and
\* `except Exception: self.ai_client = None`.  client_pc tells whether the
\* construction completed, client_exc what it raised.
ScriptInit(client_pc, client_exc) ==
    IF client_pc = "ready"
    THEN [exc |-> None, ai_client |-> "AIClient"]
    ELSE [exc |-> None, ai_client |-> None]

\* A caller that uses result['content'] without testing it.
CallSiteTrustsContent(site, ai_client, act, r, usable) ==
    IF ai_client = None \/ ~Truthy(act)
    THEN [site |-> site.site, called |-> FALSE, content |-> None,
          source |-> "fallback", text |-> site.unavailable, exc |-> None]
    ELSE IF r.exc # None
    THEN [site |-> site.site, called |-> TRUE, content |-> None,
          source |-> "fallback", text |-> site.on_exception, exc |-> None]
    ELSE [site |-> site.site, called |-> TRUE, content |-> r.result.content,
          source |-> "ai", text |-> r.result.content, exc |-> None]

\* A caller that raises when call_ai hands it the fallback result.
CallSiteRaisesOnError(site, ai_client, act, r, usable) ==
    IF ai_client = None \/ ~Truthy(act)
    THEN [site |-> site.site, called |-> FALSE, content |-> None,
          source |-> "fallback", text |-> site.unavailable, exc |-> None]
    ELSE IF r.exc # None
    THEN [site |-> site.site, called |-> TRUE, content |-> None,
          source |-> "none", text |-> None, exc |-> r.exc]
    ELSE IF "error" \in DOMAIN r.result
    THEN [site |-> site.site, called |-> TRUE, content |-> r.result.content,
          source |-> "none", text |-> None, exc |-> "RuntimeError"]
    ELSE IF usable \/ site.needs = "nothing"
    THEN [site |-> site.site, called |-> TRUE, content |-> r.result.content,
          source |-> "ai", text |-> r.result.content, exc |-> None]
    ELSE [site |-> site.site, called |-> TRUE, content |-> r.result.content,
          source |-> "fallback", text |-> site.unusable, exc |-> None]

\* One method that calls call_ai.  ai_client and act are self.ai_client and
\* its active_provider; r is what call_ai does when the guard lets the
\* method call it; usable tells whether the content meets site.needs.  The
\* outcome names the source of the text the method produces (AI or the
\* script's own fallback) and the exception the method raises (None: it
\* returned).  A json.loads error is raised inside the try and handled by
\* the method's except branch.
CallSite(site, ai_client, act, r, usable) ==
    IF ai_client = None \/ ~Truthy(act)
    THEN [site |-> site.site, called |-> FALSE, content |-> None,
          source |-> "fallback", text |-> site.unavailable, exc |-> None]
    ELSE IF r.exc # None
    THEN [site |-> site.site, called |-> TRUE, content |-> None,
          source |-> "fallback", text |-> site.on_exception, exc |-> None]
    ELSE IF ~Truthy(r.result.content)
    THEN [site |-> site.site, called |-> TRUE, content |-> r.result.content,
          source |-> "fallback", text |-> site.no_content, exc |-> None]
    ELSE IF usable \/ site.needs = "nothing"
    THEN [site |-> site.site, called |-> TRUE, content |-> r.result.content,
          source |-> "ai", text |-> r.result.content, exc |-> None]
    ELSE [site |-> site.site, called |-> TRUE, content |-> r.result.content,
          source |-> "fallback", text |-> site.unusable, exc |-> None]

\* The end of run: `if self.ai_client and
\* self.ai_client.usage_stats['requests'] > 0:` print get_usage_summary().
\* read_stats tells whether usage_stats was read from the client.
ScriptFinish(ai_client, stats) ==
    IF ai_client = None
    THEN [exc |-> None, read_stats |-> FALSE, printed |-> FALSE]
    ELSE [exc |-> None, read_stats |-> TRUE, printed |-> stats.requests > 0]

\* How the check a method makes of a truthy content can turn out; a
\* method that makes none uses the content as it is.
ContentChecks(site) == IF site.needs = "nothing" THEN {TRUE} ELSE BOOLEAN

\* A script is started: its __init__ has called AIClient(), which completed
\* or raised.
ScriptInitAction ==
    /\ script.pc = "none"
    /\ pc \in {"ready", "raised"}
    /\ \E name \in ScriptNames :
         \E command \in CommandsOf(name) :
           LET i == ScriptInit(pc, init_exc) IN
           script' =
                   [pc |-> IF i.exc = None THEN "running" ELSE "failed",
                    name |-> name, command |-> command,
                    ai_client |-> i.ai_client,
                    exc |-> i.exc, last |-> NoOutcome,
                    read_stats |-> FALSE, printed |-> FALSE]
    /\ UNCHANGED <<clientvars, rules>>

\* The script runs one of its methods that call call_ai.  The task of the
\* method has a template file in the prompts directory or has none, and the
\* variables the method builds cover the template's placeholders or do not.
CallSiteAction ==
    /\ script.pc = "running"
    /\ \E site \in SitesOf(script.name, script.command) :
       \E usable \in ContentChecks(site) :
         IF script.ai_client = None \/ ~Truthy(active_provider)
         THEN /\ LET o == CallSite(site, script.ai_client, active_provider,
                                   [exc |-> None], usable) IN
                 script' = [script EXCEPT !.last = o]
              /\ UNCHANGED <<usage_stats, config, clients, active_provider,
                             ret, api_log, done_calls, ncalls>>
         ELSE /\ ncalls < MaxCalls
              /\ \E task_name \in TaskNames,
                    template_variables \in VariableMappings,
                    reply \in RepliesOf(active_provider) :
                   /\ DoCallAI(task_name, template_variables, None, reply)
                   /\ LET r == CallAI(config.d, clients, active_provider,
                                      usage_stats, task_name,
                                      template_variables, None, reply)
                          o == CallSite(site, script.ai_client,
                                        active_provider, r, usable)
                      IN  script' = [script EXCEPT
                                       !.last = o,
                                       !.exc = o.exc,
                                       !.pc = IF o.exc = None THEN "running"
                                              ELSE "failed"]
    /\ UNCHANGED <<rules, config_path_arg, config_file, environ, ctor_raises,
                   pc, init_exc, pending>>

\* The run of the script ends.
ScriptFinishAction ==
    /\ script.pc = "running"
    /\ LET f == ScriptFinish(script.ai_client, usage_stats) IN
       script' = [script EXCEPT !.pc = IF f.exc = None THEN "done" ELSE "failed",
                                !.exc = f.exc,
                                !.read_stats = f.read_stats,
                                !.printed = f.printed]
    /\ UNCHANGED <<clientvars, rules>>

\* The scripts run beside their ai_config.yml or without it, or with an
\* empty one.
ScriptConfigFiles ==
    {[kind |-> "absent", value |-> PyNone],
     [kind |-> "document", value |-> PyNone],
     [kind |-> "document", value |-> PyDict(CfgFull)]}

InitScripts ==
    /\ config_path_arg = None
    /\ config_file \in ScriptConfigFiles
    /\ environ \in CallEnvironments
    /\ ctor_raises = {}
    /\ Fresh

NextScripts ==
    \/ Construct
    \/ SetupStep
    \/ FinishSetup
    \/ ScriptInitAction
    \/ CallSiteAction
    \/ ScriptFinishAction

SpecScripts == InitScripts /\ [][NextScripts]_vars

-----------------------------------------------------------------------------
(* Properties. *)

\* The provider a call_ai invocation resolves: its argument, else the active one.
ResolvedProvider(r) ==
    IF Truthy(r.provider_arg) THEN r.provider_arg ELSE active_provider

\* The last call was a call_ai whose provider is set and has a handle.
CallHadHandle ==
    /\ ret.op = "call_ai"
    /\ Truthy(ResolvedProvider(ret))
    /\ ResolvedProvider(ret) \in DOMAIN clients

\* The last call was a call_ai that returned the fallback result.
ReturnedFallback ==
    /\ ret.exc = None
    /\ ret.value.content = None
    /\ ret.value.provider = "fallback"

NoCredentials ==
    /\ environ.OPENAI_API_KEY = None
    /\ environ.ANTHROPIC_API_KEY = None

\* C1: with neither OPENAI_API_KEY nor ANTHROPIC_API_KEY set, a constructed
\* client has no active provider, and every call_ai, whatever its task,
\* variables and provider argument, returns content None and provider
\* "fallback" and raises nothing.
C1_NoCredentialsFallback ==
    (NoCredentials /\ pc = "ready")
        => /\ active_provider = None
           /\ ret.op = "call_ai" => ReturnedFallback

\* C1 witness: without credentials, a call_ai naming a provider explicitly,
\* for a task whose template renders, has returned.
C1_Witness ==
    /\ NoCredentials
    /\ ret.op = "call_ai"
    /\ ret.provider_arg = "openai"
    /\ RenderPrompt(ret.task, ret.variables).exc = None

\* C2: when the provider's API call raises, or its response cannot be
\* normalized, call_ai raises nothing and returns the fallback result, and
\* the client is as usable as before: still ready, the provider still has
\* its handle.
C2_ApiErrorIsFallback ==
    (ret.op = "call_ai" /\ ret.reply \in {"raise", "malformed"})
        => /\ ReturnedFallback
           /\ ret.value = FallbackResponse(ret.task)
           /\ pc = "ready"
           /\ ret.request.provider \in DOMAIN clients

\* C2 witness: a request was sent and the provider's call raised.
C2_Witness ==
    /\ ret.op = "call_ai"
    /\ ret.reply = "raise"
    /\ ret.request.provider = "anthropic"

\* The last call_ai had a handle and its prompt does not render.
RenderFailedWithHandle ==
    /\ CallHadHandle
    /\ RenderPrompt(ret.task, ret.variables).exc # None

\* C3 as claimed: with a handle for the provider, a missing template or a
\* missing variable is raised to the caller of call_ai.
C3_TemplateErrorPropagates ==
    RenderFailedWithHandle
        => ret.exc = RenderPrompt(ret.task, ret.variables).exc

\* C3 amended: with a handle for the provider, a missing template or a
\* missing variable is caught inside call_ai, which raises nothing, sends no
\* request and returns the fallback result.
C3_TemplateErrorIsFallback ==
    RenderFailedWithHandle
        => /\ ret.exc = None
           /\ ret.value = FallbackResponse(ret.task)
           /\ ret.request = NoRequest

\* C3 witness: call_ai with a handle, for a task without a template file.
C3_Witness ==
    /\ RenderFailedWithHandle
    /\ ret.task \notin DOMAIN PromptsDir

\* C4: render_prompt for a task name without a template file raises the
\* template-not-found error and returns no prompt.
C4_MissingTemplateRaises ==
    (ret.op = "render_prompt" /\ ret.task \notin DOMAIN PromptsDir)
        => ret.exc = "FileNotFoundError"

\* C4 witness: render_prompt was called for a task without a template file.
C4_Witness ==
    /\ ret.op = "render_prompt"
    /\ ret.task = "no_such_task"

\* The replacement fields a format string names.
FieldsOf(s) == {s[i].text : i \in {j \in DOMAIN s : s[j].kind = "field"}}

\* The placeholders the template of a task references.
Placeholders(task_name) ==
    FieldsOf(Get(PromptsDir[task_name], "system_prompt", <<>>))
    \cup FieldsOf(Get(PromptsDir[task_name], "user_prompt", <<>>))

\* C5: render_prompt with variables that lack a placeholder of the template
\* raises the missing-variable error, and a prompt that render_prompt returns
\* has no replacement field left in it.
C5_MissingVariableRaises ==
    ret.op = "render_prompt"
        => /\ (/\ ret.task \in DOMAIN PromptsDir
               /\ ~(Placeholders(ret.task) \subseteq DOMAIN ret.variables))
                => ret.exc = "KeyError"
           /\ ret.exc = None
                => FieldsOf(ret.value.system) \cup FieldsOf(ret.value.user) = {}

\* C5 witness: render_prompt was called on a template with variables that
\* lack one of its placeholders.
C5_Witness ==
    /\ ret.op = "render_prompt"
    /\ ret.task \in DOMAIN PromptsDir
    /\ ~(Placeholders(ret.task) \subseteq DOMAIN ret.variables)

\* The hardcoded default: openai then anthropic, no task models.
IsHardcodedDefault(c) ==
    /\ c = PyDict(FallbackConfig)
    /\ c.d.provider_priority = <<"openai", "anthropic">>
    /\ c.d.task_models = EmptyDict

MalformedConfig ==
    \/ config_file.kind \in {"unreadable", "invalid_yaml"}
    \/ config_file.kind = "document" /\ ~HasGet(config_file.value)

\* C7: with a malformed configuration file, the hardcoded default is
\* substituted and construction completes.
C7_MalformedConfigDefaults ==
    (MalformedConfig /\ pc # "new")
        => /\ pc # "raised"
           /\ IsHardcodedDefault(config)

\* The credential variable and the client class of a provider.
CredentialOf(provider) ==
    IF provider = "openai" THEN environ.OPENAI_API_KEY
    ELSE IF provider = "anthropic" THEN environ.ANTHROPIC_API_KEY
    ELSE None

ClassOf(provider) ==
    IF provider = "openai" THEN "OpenAI"
    ELSE IF provider = "anthropic" THEN "Anthropic"
    ELSE None

\* The credential is present and the constructor raises.
ConstructionFails(provider) ==
    Truthy(CredentialOf(provider)) /\ ClassOf(provider) \in ctor_raises

\* The credential is present and the constructor returns.
ConstructionSucceeds(provider) ==
    Truthy(CredentialOf(provider)) /\ ClassOf(provider) \notin ctor_raises

Priority == Get(config.d, "provider_priority", <<>>)

\* The part of provider_priority the loop has gone through.
Processed == SubSeq(Priority, 1, Len(Priority) - Len(pending))

FirstSucceeding(seq) ==
    LET ok == {i \in DOMAIN seq : ConstructionSucceeds(seq[i])} IN
    IF ok = {} THEN None
    ELSE seq[CHOOSE i \in ok : \A j \in ok : i <= j]

\* C8: throughout setup and after it, active_provider is the first provider,
\* in priority order, among those gone through whose credential is present
\* and whose construction succeeded (so a later success never changes it),
\* and each such provider has a handle in clients.
C8_FirstSuccessIsActive ==
    pc \in {"setup", "ready"}
        => /\ active_provider = FirstSucceeding(Processed)
           /\ \A i \in DOMAIN Processed :
                ConstructionSucceeds(Processed[i]) => Processed[i] \in DOMAIN clients
           /\ pc = "ready" => Processed = Priority

\* C8 witness: setup is over and two providers were constructed.
C8_Witness ==
    /\ pc = "ready"
    /\ Cardinality(DOMAIN clients) = 2
    /\ active_provider = Priority[1]

\* C9: after setup, every provider that comes after one whose construction
\* raised, and whose own credential is present and construction succeeds,
\* has a handle, and is the active provider if no provider before it was
\* constructed.
C9_FailureDoesNotAbortSetup ==
    pc = "ready"
        => \A i, j \in DOMAIN Priority :
             (i < j /\ ConstructionFails(Priority[i])
                    /\ ConstructionSucceeds(Priority[j]))
                => /\ Priority[j] \in DOMAIN clients
                   /\ (\A k \in 1..(j - 1) : ~ConstructionSucceeds(Priority[k]))
                        => active_provider = Priority[j]

\* C9 witness: setup is over, the first provider's construction raised and
\* the second provider is the active one.
C9_Witness ==
    /\ pc = "ready"
    /\ Len(Priority) >= 2
    /\ ConstructionFails(Priority[1])
    /\ ConstructionSucceeds(Priority[2])
    /\ active_provider = Priority[2]

\* C10: get_usage_summary reports as requests_made the number of call_ai
\* invocations whose API call succeeded, and as total_tokens the sum of
\* their prompt and completion tokens.
C10_UsageSummaryTotals ==
    ret.op = "get_usage_summary"
        => /\ ret.value.requests_made = done_calls.n
           /\ ret.value.total_tokens =
                done_calls.prompt_tokens + done_calls.completion_tokens

\* C10 witness: the summary was read after one successful call to each
\* provider, with tokens used.
C10_Witness ==
    /\ ret.op = "get_usage_summary"
    /\ done_calls.n = 2
    /\ api_log.openai = 1
    /\ api_log.anthropic = 1
    /\ ret.value.total_tokens > 1

\* The step is a call_ai invocation (ret' describes it).
CallAIStep == ncalls' = ncalls + 1 /\ ret'.op = "call_ai"

\* C11: a call_ai that returns the fallback result -- no provider or handle,
\* no model, or an exception caught on the way -- leaves requests,
\* tokens_used and estimated_cost of usage_stats as they were before it.
C11_FallbackLeavesUsage ==
    [][(/\ CallAIStep
        /\ ret'.exc = None
        /\ ret'.value.provider = "fallback")
       => /\ usage_stats'.requests = usage_stats.requests
          /\ usage_stats'.tokens_used = usage_stats.tokens_used
          /\ usage_stats'.estimated_cost = usage_stats.estimated_cost]_vars

\* A request was sent and the provider raised, after an earlier call had
\* been counted: the counters still show the one earlier call.
C11_Witness ==
    /\ ret.op = "call_ai"
    /\ ReturnedFallback
    /\ ret.reply = "raise"
    /\ usage_stats.requests = 1
    /\ usage_stats.tokens_used > 0
    /\ api_log.openai + api_log.anthropic = 2

\* Every price in the configuration is zero or more.
NonNegativePricing ==
    /\ config.type = "dict"
    /\ \A p \in DOMAIN Get(config.d, "providers", EmptyDict) :
         LET pricing_all == Get(config.d.providers[p], "pricing", EmptyDict) IN
         \A m \in DOMAIN pricing_all :
            \A k \in DOMAIN pricing_all[m] : pricing_all[m][k] >= 0

\* C12 as stated: estimated_cost never decreases, whatever the prices in the
\* configuration.
C12_CostNeverDecreases ==
    [][usage_stats'.estimated_cost >= usage_stats.estimated_cost]_vars

\* C12, amended: with no negative price in the configuration,
\* estimated_cost never decreases from one step to the next.
C12_CostNeverDecreasesNonNegative ==
    [][NonNegativePricing
       => usage_stats'.estimated_cost >= usage_stats.estimated_cost]_vars

\* Two priced calls in a row under non-negative prices, each adding to the
\* estimate.
C12_Witness ==
    /\ NonNegativePricing
    /\ ret.op = "call_ai"
    /\ ret.reply = "ok"
    /\ usage_stats.requests = 2
    /\ usage_stats.estimated_cost > 3

\* The configuration has a pricing entry for the model of the provider.
HasPricingEntry(provider, model) ==
    LET providers == Get(config.d, "providers", EmptyDict) IN
    /\ provider \in DOMAIN providers
    /\ "pricing" \in DOMAIN providers[provider]
    /\ model \in DOMAIN providers[provider].pricing

\* C13: estimate_cost returns 0.0 and raises nothing when the configuration
\* has no pricing entry for the (provider, model) pair: the provider is
\* unknown, has no pricing section, or its pricing lacks the model.
C13_NoPricingIsZero ==
    (ret.op = "estimate_cost" /\ ~HasPricingEntry(ret.provider, ret.model))
    => (ret.exc = None /\ ret.value = 0)

\* A priced provider asked about a model its pricing does not list, with
\* tokens on both sides.
C13_Witness ==
    /\ ret.op = "estimate_cost"
    /\ ret.provider \in DOMAIN Get(config.d, "providers", EmptyDict)
    /\ "pricing" \in DOMAIN config.d.providers[ret.provider]
    /\ ~HasPricingEntry(ret.provider, ret.model)
    /\ ret.input_tokens > 0
    /\ ret.output_tokens > 0
    /\ ret.value = 0

\* The provider a get_model_for_task invocation resolves.
QueriedProvider ==
    IF Truthy(ret.provider_arg) THEN ret.provider_arg ELSE active_provider

\* The complexity tag of a task: the one configured for it, else "standard".
ComplexityTag(task_name) ==
    LET task_models == Get(config.d, "task_models", EmptyDict) IN
    IF task_name \in DOMAIN task_models
    THEN task_models[task_name].complexity
    ELSE "standard"

\* C14: for a provider P that has a providers entry and a task t,
\* get_model_for_task returns providers.P.models[tag] when that entry
\* exists, tag being task_models.t.complexity or "standard" for a task that
\* is not configured, and providers.P.default_model otherwise.
C14_ModelResolution ==
    (/\ ret.op = "get_model_for_task"
     /\ QueriedProvider \in DOMAIN Get(config.d, "providers", EmptyDict))
    => LET provider_config == config.d.providers[QueriedProvider]
           tag == ComplexityTag(ret.task)
       IN  /\ ret.exc = None
           /\ ret.value =
                IF "models" \in DOMAIN provider_config
                   /\ tag \in DOMAIN provider_config.models
                THEN provider_config.models[tag]
                ELSE IF "default_model" \in DOMAIN provider_config
                THEN provider_config.default_model
                ELSE None

\* A task configured as deep, asked of a provider whose models map deep to
\* something other than its default model.
C14_Witness ==
    /\ ret.op = "get_model_for_task"
    /\ QueriedProvider \in DOMAIN Get(config.d, "providers", EmptyDict)
    /\ ret.task \in DOMAIN Get(config.d, "task_models", EmptyDict)
    /\ ComplexityTag(ret.task) = "deep"
    /\ "models" \in DOMAIN config.d.providers[QueriedProvider]
    /\ "deep" \in DOMAIN config.d.providers[QueriedProvider].models
    /\ ret.value = config.d.providers[QueriedProvider].models.deep
    /\ ret.value # config.d.providers[QueriedProvider].default_model

\* The same task asked of a provider whose models have no entry for its
\* tag: the provider's default model is returned.
C14_WitnessDefault ==
    /\ ret.op = "get_model_for_task"
    /\ QueriedProvider \in DOMAIN Get(config.d, "providers", EmptyDict)
    /\ ComplexityTag(ret.task) = "deep"
    /\ "models" \in DOMAIN config.d.providers[QueriedProvider]
    /\ "deep" \notin DOMAIN config.d.providers[QueriedProvider].models
    /\ ret.value = config.d.providers[QueriedProvider].default_model

\* The provider is unset, or the configuration's providers has no entry
\* for it.
Unconfigured(provider) ==
    \/ ~Truthy(provider)
    \/ provider \notin DOMAIN Get(config.d, "providers", EmptyDict)

\* C15: when the provider is unset or is not a key of the configuration's
\* providers, get_model_for_task returns no model for any task, and a
\* call_ai for that provider returns the fallback result without sending a
\* request to any provider.
C15_UnconfiguredProviderNoModel ==
    /\ pc = "ready"
       => \A task_name \in TaskNames, provider_arg \in ProviderArgs \cup {"gemini"} :
             Unconfigured(IF Truthy(provider_arg) THEN provider_arg
                          ELSE active_provider)
             => GetModelForTask(config.d, active_provider, task_name,
                                provider_arg) = None
    /\ (ret.op = "call_ai" /\ Unconfigured(ResolvedProvider(ret)))
       => /\ ret.exc = None
          /\ ret.value.provider = "fallback"
          /\ "error" \in DOMAIN ret.value
          /\ ret.request = NoRequest
          /\ ret.reply = "none"

\* A call for a provider that has a handle and whose template renders, but
\* that the configuration's providers does not list.
C15_Witness ==
    /\ CallHadHandle
    /\ Unconfigured(ResolvedProvider(ret))
    /\ RenderPrompt(ret.task, ret.variables).exc = None
    /\ ReturnedFallback
    /\ api_log.openai + api_log.anthropic = 0

\* The three layers for the last call_ai: the built-in defaults, the
\* configuration's parameters for the provider and model it used, and the
\* parameters of the task's template.
BuiltinLayer == [max_tokens |-> 1500, temperature |-> 3, timeout |-> 30]

ConfigLayer ==
    LET provider_config == config.d.providers[ret.request.provider] IN
    IF "parameters" \in DOMAIN provider_config
       /\ ret.request.model \in DOMAIN provider_config.parameters
    THEN provider_config.parameters[ret.request.model]
    ELSE EmptyDict

TemplateLayer ==
    IF "parameters" \in DOMAIN PromptsDir[ret.task]
    THEN PromptsDir[ret.task].parameters
    ELSE EmptyDict

\* C16: the parameters call_ai uses for a dispatch are, key by key, the
\* template's value if the template has the key, else the configuration's
\* value for the provider and model if it has the key, else the built-in
\* default (max_tokens 1500, temperature 0.3, timeout 30); max_tokens and
\* temperature of the request sent are taken from them.
C16_ParameterLayering ==
    (ret.op = "call_ai" /\ ret.reply # "none")
    => /\ DOMAIN ret.params
            = DOMAIN BuiltinLayer \cup DOMAIN ConfigLayer \cup DOMAIN TemplateLayer
       /\ \A k \in DOMAIN ret.params :
             ret.params[k] = IF k \in DOMAIN TemplateLayer THEN TemplateLayer[k]
                             ELSE IF k \in DOMAIN ConfigLayer THEN ConfigLayer[k]
                             ELSE BuiltinLayer[k]
       /\ ret.request.max_tokens = ret.params.max_tokens
       /\ ret.request.temperature = ret.params.temperature

\* Each layer supplies one key: max_tokens from the template, temperature
\* from the configuration, timeout from the defaults.
C16_Witness ==
    /\ ret.op = "call_ai"
    /\ ret.reply = "ok"
    /\ "max_tokens" \in DOMAIN TemplateLayer
    /\ "temperature" \in DOMAIN ConfigLayer
    /\ ret.params = [max_tokens |-> 800, temperature |-> 5, timeout |-> 30]
    /\ ret.request.max_tokens = 800
    /\ ret.request.temperature = 5

\* The template and the configuration both set max_tokens: the template's
\* value is used.
C16_WitnessOverride ==
    /\ ret.op = "call_ai"
    /\ ret.reply # "none"
    /\ "max_tokens" \in DOMAIN TemplateLayer
    /\ "max_tokens" \in DOMAIN ConfigLayer
    /\ TemplateLayer.max_tokens # ConfigLayer.max_tokens
    /\ ret.request.max_tokens = TemplateLayer.max_tokens

\* C17: whatever led to it -- no provider or handle, no model, or an
\* exception caught in the call -- the fallback result of call_ai for task
\* T is exactly content None, model None, provider "fallback", error
\* "AI provider not available", task T.
C17_FallbackShape ==
    (ret.op = "call_ai" /\ ret.exc = None /\ ret.reply # "ok")
    => ret.value = [content |-> None, model |-> None, provider |-> "fallback",
                    error |-> "AI provider not available", task |-> ret.task]

\* The provider answered without choices: the IndexError raised while the
\* response was read is caught and the result is the fallback for the task.
C17_Witness ==
    /\ ret.op = "call_ai"
    /\ ret.reply = "malformed"
    /\ ret.task = "code_review"
    /\ ret.value.error = "AI provider not available"
    /\ ret.value.task = "code_review"

\* The fallback by each of the other ways: no provider, no model.
C17_WitnessNoProvider ==
    /\ ret.op = "call_ai"
    /\ ~Truthy(ResolvedProvider(ret))
    /\ ret.value.task = ret.task

C17_WitnessNoModel ==
    /\ CallHadHandle
    /\ RenderPrompt(ret.task, ret.variables).exc = None
    /\ ret.reply = "none"
    /\ ret.value.task = ret.task

\* The result has the keys and values of a provider's answer.
GenuineShape(v) ==
    /\ "usage" \in DOMAIN v
    /\ DOMAIN v.usage = {"prompt_tokens", "completion_tokens", "total_tokens"}
    /\ "model" \in DOMAIN v
    /\ v.model # None
    /\ v.provider \in {"openai", "anthropic"}
    /\ "error" \notin DOMAIN v

\* The result has the keys of the fallback.
FallbackShape(v) ==
    /\ "error" \in DOMAIN v
    /\ "usage" \notin DOMAIN v

\* C18: every call_ai returns a result of exactly one of two shapes: a
\* genuine one (usage with prompt_tokens, completion_tokens and
\* total_tokens, a model, the id of the provider that answered, no error)
\* or the fallback one (error, no usage); never both, never neither.
C18_TwoResultShapes ==
    ret.op = "call_ai"
    => /\ ret.exc = None
       /\ GenuineShape(ret.value) # FallbackShape(ret.value)
       /\ GenuineShape(ret.value)
          => /\ ret.value.provider = ret.request.provider
             /\ ret.value.model = ret.request.model
       /\ ("usage" \in DOMAIN ret.value) # ("error" \in DOMAIN ret.value)

\* A genuine result after a fallback one in the same session.
C18_Witness ==
    /\ ret.op = "call_ai"
    /\ GenuineShape(ret.value)
    /\ ~FallbackShape(ret.value)
    /\ ncalls = 2
    /\ api_log.openai + api_log.anthropic = 1

\* C19: get_usage_summary only reads: it leaves usage_stats, clients,
\* active_provider and config as they are, and the requests_made,
\* total_tokens, active_provider and available_providers it returns are the
\* current counters, the current active provider and the keys of clients.
C19_UsageSummaryIsPureRead ==
    [][ret'.op = "get_usage_summary"
       => /\ UNCHANGED <<usage_stats, clients, active_provider, config>>
          /\ ret'.exc = None
          /\ ret'.value.requests_made = usage_stats.requests
          /\ ret'.value.total_tokens = usage_stats.tokens_used
          /\ ret'.value.active_provider = active_provider
          /\ ret'.value.available_providers = DOMAIN clients]_vars

\* A summary taken between two calls, with two handles registered and one
\* request counted.
C19_Witness ==
    /\ ret.op = "get_usage_summary"
    /\ ret.value.available_providers = {"openai", "anthropic"}
    /\ ret.value.active_provider = "openai"
    /\ ret.value.requests_made = 1
    /\ ret.value.total_tokens > 0
    /\ ncalls = 1

\* Requests sent to the providers so far.
RequestsIssued == api_log.openai + api_log.anthropic

\* The step is a call_ai with the arguments of the call_ai just before it,
\* and that earlier call got as far as sending a request.
RepeatedCallStep ==
    /\ CallAIStep
    /\ ret'.repeat
    /\ ret.reply # "none"

\* A call_ai step sends one request if it reaches the dispatch and none
\* otherwise; a repeated call reaches the dispatch again.
OneRequestPerDispatch ==
    /\ CallAIStep
       => RequestsIssued' = RequestsIssued + (IF ret'.reply # "none" THEN 1 ELSE 0)
    /\ RepeatedCallStep
       => /\ ret'.reply # "none"
          /\ ret'.request.provider = ret.request.provider
          /\ api_log'[ret'.request.provider] = api_log[ret'.request.provider] + 1

\* C20 as stated: nothing is memoized -- a call_ai that reaches the dispatch
\* sends exactly one request, a second call with the same task and variables
\* sends a request of its own, and each such request is counted in
\* usage_stats.
C20_EachRequestCounted ==
    [][/\ OneRequestPerDispatch
       /\ RepeatedCallStep
          => usage_stats'.requests = usage_stats.requests + 1]_vars

\* C20, amended: nothing is memoized -- a call_ai that reaches the dispatch
\* sends exactly one request, a second call with the same task and variables
\* sends a request of its own, and usage_stats counts each request that the
\* provider answered; one on which the provider call raised is not counted.
C20_AnsweredRequestCounted ==
    [][/\ OneRequestPerDispatch
       /\ RepeatedCallStep
          => usage_stats'.requests
                = usage_stats.requests + (IF ret'.reply = "ok" THEN 1 ELSE 0)]_vars

\* The same call made twice, answered twice: two requests sent, two counted.
C20_Witness ==
    /\ ret.op = "call_ai"
    /\ ret.repeat
    /\ ret.reply = "ok"
    /\ RequestsIssued = 2
    /\ usage_stats.requests = 2

\* The same call made twice, the second one failing at the provider: two
\* requests sent, one counted.
C20_WitnessUncounted ==
    /\ ret.op = "call_ai"
    /\ ret.repeat
    /\ ret.reply = "raise"
    /\ RequestsIssued = 2
    /\ usage_stats.requests = 1

\* C23: the loaded configuration is read-only: after any sequence of
\* call_ai, render_prompt and get_usage_summary calls (call_ai calling
\* get_model_for_task, get_model_parameters and estimate_cost), config is
\* still the value _load_config returned; merging the template's parameters
\* into the call's parameters does not touch the configuration's entries.
C23_ConfigReadOnly ==
    pc = "ready" => config = LoadConfig(config_file)

\* A call whose template overrode a parameter the configuration sets for the
\* model: the request carries the template's value and the configuration
\* still holds its own.
C23_Witness ==
    /\ ret.op = "call_ai"
    /\ ret.reply = "ok"
    /\ "max_tokens" \in DOMAIN TemplateLayer
    /\ "max_tokens" \in DOMAIN ConfigLayer
    /\ ret.request.max_tokens = 800
    /\ config.d.providers[ret.request.provider].parameters[ret.request.model].max_tokens
         = 1000
    /\ usage_stats.requests = 2

\* C24: once construction is complete, clients and active_provider never
\* change, whatever call_ai invocations follow and whatever happens to the
\* credential variables of the environment.
C24_RegistryFixedAfterConstruction ==
    [][pc = "ready" => UNCHANGED <<clients, active_provider>>]_vars

\* Both credentials appeared after a client was constructed without any: a
\* call made afterwards still finds no provider.
C24_Witness ==
    /\ pc = "ready"
    /\ environ.OPENAI_API_KEY = "sk-key"
    /\ environ.ANTHROPIC_API_KEY = "sk-key"
    /\ DOMAIN clients = {}
    /\ active_provider = None
    /\ ret.op = "call_ai"
    /\ ReturnedFallback

\* Both credentials disappeared after construction and a provider call
\* failed: both handles are still registered and the next call is answered.
C24_WitnessKept ==
    /\ pc = "ready"
    /\ environ.OPENAI_API_KEY = None
    /\ environ.ANTHROPIC_API_KEY = None
    /\ DOMAIN clients = {"openai", "anthropic"}
    /\ active_provider = "openai"
    /\ ret.op = "call_ai"
    /\ ret.reply = "ok"
    /\ RequestsIssued = 2
    /\ usage_stats.requests = 1

\* The task of the last call has no template file.
TemplateMissing == ret.task \notin DOMAIN PromptsDir

\* The variables of the last call lack a placeholder of the task's template.
VariablesMissing ==
    /\ ret.task \in DOMAIN PromptsDir
    /\ ~(Placeholders(ret.task) \subseteq DOMAIN ret.variables)

\* The configuration gives no model for the provider and task of the last
\* call: no providers entry, or neither a model for the task's tag nor a
\* default model.
ModelUnresolvable ==
    \/ Unconfigured(ResolvedProvider(ret))
    \/ LET provider_config == config.d.providers[ResolvedProvider(ret)] IN
       /\ ComplexityTag(ret.task) \notin DOMAIN Get(provider_config, "models", EmptyDict)
       /\ ~Truthy(Get(provider_config, "default_model", None))

\* C25: a call_ai whose template is missing, whose variables do not cover
\* the template's placeholders, or whose model cannot be resolved sends no
\* request to a provider: the API is called only after the prompt was
\* rendered and a model resolved.
C25_NoRequestBeforeRenderAndModel ==
    (ret.op = "call_ai" /\ (TemplateMissing \/ VariablesMissing \/ ModelUnresolvable))
    => /\ ret.request = NoRequest
       /\ ret.reply = "none"

\* A provider with a handle and a model, a template that exists, variables
\* that lack one of its placeholders; an earlier call was sent, this one not.
C25_Witness ==
    /\ CallHadHandle
    /\ VariablesMissing
    /\ ~ModelUnresolvable
    /\ ret.request = NoRequest
    /\ ncalls = 2
    /\ RequestsIssued = 1

\* The same with a task that has no template file.
C25_WitnessNoTemplate ==
    /\ CallHadHandle
    /\ TemplateMissing
    /\ ~ModelUnresolvable
    /\ ret.request = NoRequest

\* The model the configuration gives provider for the task.
ConfiguredModel(provider, task_name) ==
    LET provider_config == config.d.providers[provider]
        tag == ComplexityTag(task_name)
    IN  IF "models" \in DOMAIN provider_config
           /\ tag \in DOMAIN provider_config.models
        THEN provider_config.models[tag]
        ELSE provider_config.default_model

\* C26: call_ai with an explicit provider P that has no handle returns the
\* fallback result without rendering a prompt or sending a request, even
\* when an active provider with a handle exists; with a handle for P the
\* request goes to P, with P's credential, P's model for the task and P's
\* configured parameters; without the argument the provider is
\* active_provider.
C26_ExplicitProvider ==
    ret.op = "call_ai"
    => /\ (Truthy(ret.provider_arg) /\ ret.provider_arg \notin DOMAIN clients)
          => /\ ReturnedFallback
             /\ ~ret.rendered
             /\ ret.request = NoRequest
       /\ ret.reply # "none"
          => LET P == IF Truthy(ret.provider_arg) THEN ret.provider_arg
                      ELSE active_provider
             IN  /\ P \in DOMAIN clients
                 /\ ret.rendered
                 /\ ret.request.provider = P
                 /\ ret.request.api_key = clients[P].api_key
                 /\ ret.request.model = ConfiguredModel(P, ret.task)
                 /\ ret.request.max_tokens
                      = IF "max_tokens" \in DOMAIN TemplateLayer
                        THEN TemplateLayer.max_tokens
                        ELSE IF "max_tokens" \in DOMAIN ConfigLayer
                        THEN ConfigLayer.max_tokens
                        ELSE 1500

\* The provider named is not the active one: the request goes to it, with
\* its own model.
C26_Witness ==
    /\ ret.op = "call_ai"
    /\ ret.provider_arg = "anthropic"
    /\ active_provider = "openai"
    /\ ret.reply = "ok"
    /\ ret.request.provider = "anthropic"
    /\ ret.request.model = "claude-3-5-haiku-20241022"
    /\ ret.value.provider = "anthropic"

\* The provider named has no handle while the active one has: fallback,
\* nothing rendered, nothing sent.
C26_WitnessNoHandle ==
    /\ ret.op = "call_ai"
    /\ ret.provider_arg = "openai"
    /\ "openai" \notin DOMAIN clients
    /\ active_provider = "anthropic"
    /\ "anthropic" \in DOMAIN clients
    /\ RenderPrompt(ret.task, ret.variables).exc = None
    /\ ~ret.rendered
    /\ ReturnedFallback

\* C27: during setup and in every state of a constructed client,
\* active_provider is None or a key of clients; the keys of clients are
\* recognized providers (openai, anthropic) named in provider_priority whose
\* credential was present, each with the one handle built from that
\* credential; and active_provider is None exactly when clients is empty.
C27_RegistryWellFormed ==
    pc \in {"setup", "ready"}
    => /\ active_provider = None \/ active_provider \in DOMAIN clients
       /\ DOMAIN clients \subseteq {"openai", "anthropic"}
       /\ \A p \in DOMAIN clients :
            /\ p \in SeqToSet(Priority)
            /\ Truthy(CredentialOf(p))
            /\ clients[p] = [cls |-> ClassOf(p), api_key |-> CredentialOf(p)]
       /\ (active_provider = None) <=> (DOMAIN clients = {})

\* Both credentials present, both providers in the priority list, one
\* constructor raised: one handle, and its provider is the active one.
C27_Witness ==
    /\ pc = "ready"
    /\ Truthy(environ.OPENAI_API_KEY)
    /\ Truthy(environ.ANTHROPIC_API_KEY)
    /\ {"openai", "anthropic"} \subseteq SeqToSet(Priority)
    /\ ctor_raises = {"OpenAI"}
    /\ DOMAIN clients = {"anthropic"}
    /\ active_provider = "anthropic"

\* A provider other than the one the last call resolved has a handle and a
\* providers entry in the configuration.
OtherProviderUsable ==
    \E q \in DOMAIN clients \ {ResolvedProvider(ret)} : ~Unconfigured(q)

\* C28: one call_ai attempts at most one provider, the one named or else the
\* active one: at most one request per call, sent to that provider; when its
\* API call raises, or when it has a handle but no providers entry in the
\* configuration, the result is the fallback result, whether or not another
\* provider with a handle and a model is registered.
C28_NoFailover ==
    /\ RequestsIssued <= ncalls
    /\ ret.op = "call_ai"
       => /\ ret.request.provider \in {None, ResolvedProvider(ret)}
          /\ (/\ CallHadHandle
              /\ \/ ret.reply \in {"raise", "malformed"}
                 \/ Unconfigured(ResolvedProvider(ret)))
             => /\ ReturnedFallback
                /\ "usage" \notin DOMAIN ret.value

\* The provider's API call raised while another usable provider was
\* registered: fallback, and the one request went to the failing provider.
C28_Witness ==
    /\ CallHadHandle
    /\ ret.reply = "raise"
    /\ OtherProviderUsable
    /\ ReturnedFallback
    /\ ret.request.provider = ResolvedProvider(ret)
    /\ RequestsIssued = 1

\* The provider has a handle but no providers entry, another one has both:
\* fallback, no request to either.
C28_WitnessUnconfigured ==
    /\ CallHadHandle
    /\ Unconfigured(ResolvedProvider(ret))
    /\ RenderPrompt(ret.task, ret.variables).exc = None
    /\ OtherProviderUsable
    /\ ReturnedFallback
    /\ RequestsIssued = 0

\* Some message among the first n of the list has one of the words, in any
\* letter case.
SomeCommitHas(words, commits, n) ==
    \E k \in 1..n : AnyWordIn(words, Lower(commits[k]))

\* The bump the commit messages alone call for.
BumpOfMessages(commits, n) ==
    IF SomeCommitHas(BreakingWords, commits, n) THEN "major"
    ELSE IF SomeCommitHas(FeatureWords, commits, n) THEN "minor"
    ELSE "patch"

\* C30: rule_based_analysis only escalates the bump while it goes through
\* the commits, so the result does not depend on their order: it is major
\* iff some message contains a breaking keyword, otherwise minor iff some
\* message contains a feature keyword or vars or defaults files changed,
\* otherwise patch; should_release is true iff there is at least one commit.
C30_BumpOnlyEscalates ==
    /\ rules.pc = "loop"
       => rules.version_bump = BumpOfMessages(rules.commits, rules.i - 1)
    /\ rules.pc = "done"
       => LET n == Len(rules.commits)
              files == TruthyList(rules.changed_files, "vars")
                       \/ TruthyList(rules.changed_files, "defaults")
          IN  /\ rules.result.version_bump
                   = IF SomeCommitHas(BreakingWords, rules.commits, n) THEN "major"
                     ELSE IF SomeCommitHas(FeatureWords, rules.commits, n) \/ files
                     THEN "minor"
                     ELSE "patch"
              /\ rules.result.should_release <=> n > 0

\* A breaking commit first, a feature commit after it: the result is major.
C30_Witness ==
    /\ rules.pc = "done"
    /\ Len(rules.commits) = 3
    /\ AnyWordIn(BreakingWords, Lower(rules.commits[1]))
    /\ ~AnyWordIn(BreakingWords, Lower(rules.commits[3]))
    /\ AnyWordIn(FeatureWords, Lower(rules.commits[3]))
    /\ rules.result.version_bump = "major"
    /\ rules.result.should_release

\* No keyword in any message and a defaults file changed: minor.
C30_WitnessFiles ==
    /\ rules.pc = "done"
    /\ Len(rules.commits) = 1
    /\ BumpOfMessages(rules.commits, 1) = "patch"
    /\ TruthyList(rules.changed_files, "defaults")
    /\ rules.result.version_bump = "minor"


\* A method of the script has run and called call_ai.
SiteCalledAI ==
    /\ script.pc # "none"
    /\ script.last # NoOutcome
    /\ script.last.called

\* The script goes on after its last method: nothing was raised.
ScriptContinues ==
    /\ script.pc \in {"running", "done"}
    /\ script.exc = None
    /\ script.last.exc = None

\* The last method produced one of its own texts for a failed AI step.
OwnFallbackOfSite ==
    /\ script.last.source = "fallback"
    /\ \E s \in SitesOf(script.name, script.command) :
         /\ s.site = script.last.site
         /\ script.last.text \in {s.no_content, s.on_exception}

\* C21: at every call site of call_ai in the scripts, a result whose content
\* is absent makes the method produce its own deterministic fallback
\* (rule-based analysis, canned text, no update); the script continues,
\* nothing is raised, and the text is not the provider's.
C21_AbsentContentRunsFallback ==
    (SiteCalledAI /\ ~Truthy(script.last.content))
        => /\ OwnFallbackOfSite
           /\ script.last.text \notin {None, "generated text"}
           /\ ScriptContinues

\* The release analyzer fell back to the rule-based analysis after a
\* call_ai without content.
C21_Witness ==
    /\ SiteCalledAI
    /\ ~Truthy(script.last.content)
    /\ script.last.site = "analyze_with_ai"
    /\ script.last.text = "rule_based_analysis"

\* The PR assistant answered with its canned review text; the doc updater
\* left the README alone.
C21_WitnessCanned ==
    /\ SiteCalledAI
    /\ ~Truthy(script.last.content)
    /\ script.last.site = "review_file_with_ai"
    /\ script.last.text = "File reviewed - no specific issues identified."

C21_WitnessNoUpdate ==
    /\ SiteCalledAI
    /\ ~Truthy(script.last.content)
    /\ script.last.site = "update_readme_with_ai"
    /\ script.last.text = "no update"

\* The provider raised on the request of the last method.
TransientFailure == SiteCalledAI /\ ret.reply = "raise"

\* The task of the last method has no template file.
PackagingDefect == SiteCalledAI /\ TemplateMissing

\* The variables of the last method lack a placeholder of the template.
InputDefect == SiteCalledAI /\ VariablesMissing

\* C22 as stated: with an active provider, a transient provider failure lets
\* the script continue with fallback text, and a missing template or a
\* missing template variable terminates the script with a failure instead
\* of fallback text.
C22_DefectsTerminateScript ==
    /\ TransientFailure => (OwnFallbackOfSite /\ ScriptContinues)
    /\ (PackagingDefect \/ InputDefect)
          => /\ script.pc = "failed"
             /\ script.last.source # "fallback"

\* C22: with an active provider, a transient provider failure, a missing
\* template and a missing template variable all let the script continue
\* with its deterministic fallback text; none of them terminates the script.
C22_DefectsBecomeFallback ==
    (TransientFailure \/ PackagingDefect \/ InputDefect)
        => /\ OwnFallbackOfSite
           /\ ScriptContinues
           /\ ret.exc = None

C22_Witness ==
    /\ PackagingDefect
    /\ script.last.site = "update_readme_with_ai"
    /\ script.last.text = "no update"
    /\ script.pc = "done"

C22_WitnessInput ==
    /\ InputDefect
    /\ script.last.site = "analyze_with_ai"
    /\ script.last.text = "rule_based_analysis"
    /\ script.pc = "done"

C22_WitnessTransient ==
    /\ TransientFailure
    /\ ~PackagingDefect
    /\ ~InputDefect
    /\ OwnFallbackOfSite
    /\ script.pc = "done"

\* C29: in every script, when the construction of AIClient fails the
\* exception is caught and ai_client is None; every later method that would
\* use AI produces its fallback without calling call_ai and without
\* raising, and the end of the run does not read usage statistics.
C29_ConstructionFailureIsSurvived ==
    (script.pc # "none" /\ pc = "raised")
        => /\ script.ai_client = None
           /\ script.exc = None
           /\ script.pc \in {"running", "done"}
           /\ script.last # NoOutcome
                => /\ ~script.last.called
                   /\ script.last.source = "fallback"
                   /\ script.last.exc = None
           /\ ~script.read_stats
           /\ ~script.printed
           /\ usage_stats = InitialUsage

\* ai_config.yml was not found; the PR assistant ran a command and finished.
C29_Witness ==
    /\ script.pc = "done"
    /\ pc = "raised"
    /\ init_exc = "FileNotFoundError"
    /\ script.name = "ai_pr_assistant"
    /\ script.last # NoOutcome
    /\ script.last.site = "handle_test_command"

\* The configuration was an empty document; the doc updater made no update.
C29_WitnessEmptyDocument ==
    /\ script.pc = "done"
    /\ pc = "raised"
    /\ init_exc = "AttributeError"
    /\ script.name = "ai_doc_updater"
    /\ script.last # NoOutcome
    /\ script.last.text = "no update"

=============================================================================
